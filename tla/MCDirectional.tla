--------------------------- MODULE MCDirectional ---------------------------
(* Instances of Directional for TLC. *)
EXTENDS Directional

CONSTANTS m1, m2, reb, old, sec, s1, s2

AllKeys == {m1, m2, reb, old, sec, s1, s2}
\* Two strategies of one family, a rebound after yesterday's, a seconds episode
\* next to a minute signal on a contract that expires, and two shock episodes.
AllConfigs == {<<{m1, m2}, 9>>, <<{reb}, 9>>, <<{m1, sec}, 4>>, <<{s1, s2}, 9>>}
ShockOnly == {<<{s1, s2}, 9>>}
Kinds == [k \in AllKeys |-> CASE k \in {m1, m2} -> "minute" [] k \in {reb, old} -> "rebound"
                              [] k = sec -> "seconds" [] k \in {s1, s2} -> "shock"]
Families == [k \in AllKeys |-> IF k = m2 THEN m1 ELSE k]
Buckets == [k \in AllKeys |-> 2]
\* Yesterday's position leaves at once; the others outlive the bound of the clock.
Exits == [k \in AllKeys |-> IF k = old THEN 1 ELSE 9]
============================================================================
