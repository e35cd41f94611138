---------------------------- MODULE MCLifespan ----------------------------
EXTENDS Lifespan, TLC

\* Bound: a behavior has either logins or health probes.  They share nothing but
\* the end of the process.
NoSessions == \A l \in Logins : login[l].st = "idle"
NoProbes == now = 0 /\ \A c \in Callers : caller[c].st = "idle"
OnePart == (NoSessions \/ NoProbes)'
=============================================================================
