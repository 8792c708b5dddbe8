---------------------------- MODULE MCSecretSync ----------------------------
(* Instances of SecretSync for TLC. *)
EXTENDS SecretSync, TLC

CONSTANTS p1, p2, p3, r1, r2, r3

\* Two servers, one of which serves two users at once.
HomeTwo == r1 :> p1 @@ r2 :> p1 @@ r3 :> p2

\* Three servers with a user each.
HomeThree == r1 :> p1 @@ r2 :> p2 @@ r3 :> p3

Circumstances(clocks, faults, n) == [clock : clocks, faults : faults, changes : {n}]

\* The kinds of faults, one at a time.
SettingsAll ==
    Circumstances({"sound"}, {{}, {"call"}}, 3)
    \cup Circumstances({"skewed"}, {{}, {"call"}, {"disk"}, {"crash"}}, 2)
    \cup Circumstances({"sound"}, {{"disk"}, {"crash"}}, 2)

\* Two changes among three servers.
SettingsThree == Circumstances({"sound", "skewed"}, {{}}, 2)

=============================================================================
