---------------------------- MODULE MCAnalytics ----------------------------
(* Analytics on a small instance: the first click comes from a tablet that    *)
(* also calls itself mobile, by a link; the others are direct, a day later.   *)
EXTENDS Analytics

CONSTANTS u1, r1

MCUrlOf == [r \in Redirects |-> u1]
MCUserAgentOf == [r \in Redirects |-> IF r = r1 THEN {"tablet", "mobile"} ELSE {}]
MCReferrerOf == [r \in Redirects |-> IF r = r1 THEN "site" ELSE ""]
MCDayOf == [r \in Redirects |-> IF r = r1 THEN "monday" ELSE "tuesday"]
=============================================================================
