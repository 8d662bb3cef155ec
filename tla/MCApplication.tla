----------------------------- MODULE MCApplication -----------------------------
(* Every configuration of one or two plugins, and three of two categories, *)
(* with two types and two library paths.                                   *)
EXTENDS Application, TLC

CONSTANTS p, q

TwoFiles == p :> "first" @@ q :> "second"
OneFile == p :> "first" @@ q :> "first"

(* Of the disabled entries one for each category stands for all *)
Entry(K) == {s \in PluginSpec : s.kind \in K /\ (s.enabled \/ <<s.type, s.library>> = <<"a", p>>)}

Sorted(c) == \A i \in 1..(Len(c) - 1) : KindRank[c[i].kind] <= KindRank[c[i + 1].kind]

MCConfigs ==
  {c \in [1..2 -> Entry(Kind)] : Sorted(c)}
    \cup {c \in [1..3 -> Entry({"driver", "source"})] : Sorted(c) /\ c[1].kind = "driver" /\ c[3].kind = "source"}

(* A driver and a processor *)
AliasConfigs == {c \in [1..2 -> Entry({"driver", "processor"})] : Sorted(c) /\ c[1].kind # c[2].kind}

MCInProgram == {<<"publisher", "a">>, <<"source", "b">>}
=============================================================================
