------------------------------ MODULE MCStartup ------------------------------
(* Instances of Startup for TLC. *)
EXTENDS Startup, TLC

CONSTANTS i1, i2

Deployment(url, f, r, m, c, faults) ==
  [dbUrl |-> url, fallback |-> f, render |-> r, migrate |-> m,
   missing |-> c[1], secretLength |-> c[2],
   containers |-> IF faults = 0 THEN {i1} ELSE {i1, i2}, outages |-> faults, kills |-> faults]

Sufficient == <<{}, 32>>

\* One container, with every combination of DB_URL and two of its fallbacks, on
\* Render or not, with and without migrations, with a required variable
\* missing, with a secret that is just too short, and sound; and two containers
\* with one database, outages and kills.
MCDeployments ==
  {Deployment(url, f, r, m, c, 0) :
     url \in Values, f \in [1 .. 2 -> Values], r \in BOOLEAN, m \in BOOLEAN,
     c \in {Sufficient, <<{}, 31>>, <<{"JWT_SECRET"}, 0>>}}
  \cup {Deployment("a", [k \in {} |-> "unset"], TRUE, TRUE, Sufficient, 2)}
=============================================================================
