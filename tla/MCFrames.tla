------------------------------ MODULE MCFrames -------------------------------
(***************************************************************************)
(* Frames with entries of every kind of value, with every length flag, an  *)
(* unknown type, an empty array and topologies that lack bytes, alone, in  *)
(* pairs and in lists of three, with counts that are right, too small or   *)
(* too large.                                                              *)
(***************************************************************************)
EXTENDS FramesProps, TLC

\* Two ids that one damaged byte turns into each other.
Id1 == <<35, 138, 8, 65, 216, 40>>
MCIds == {Id1, [Id1 EXCEPT ![6] = 41]}

E(type, flag, value) == [type |-> type, flag |-> flag, value |-> value, lost |-> 0]

Temperature == E(Type(0, 5), 0, <<4660, 22136>>)
Battery     == E(Type(0, 29), 1, <<513>>)
Heartbeat   == E(Type(0, 28), 3, <<7>>)
Wind        == E(Type(1, 2), 2, <<-2>>)
Waveform    == E(Type(0, 60), 2, <<1, 2, 3, 65535>>)
NoWaveform  == E(Type(0, 60), 2, <<>>)
Nitrogen    == E(Type(2, 207), 0, <<0, 16256>>)
Unknown     == E(Type(0, 10), 0, <<1, 2>>)

\* The second node's eid begins with '$'.
Node1 == Id1 \o <<1, 1>> \o Id1
Node2 == <<36, 44, 0, 44, 1, 2>> \o <<1, 0>> \o Id1
Topology == E(Type(0, 8), 1, Node1 \o Node2)
Cut(e, n) == [e EXCEPT !.lost = n]

\* 512 bytes: the length has a high byte and no low one.
Spectrum == E(Type(2, 28), 2, [i \in 1..256 |-> i])

Entries == {Temperature, Battery, Heartbeat, Wind, Waveform, NoWaveform, Nitrogen, Unknown, Topology}

R(ps, n) == [params |-> ps, count |-> Len(ps), cut |-> n]
Counted(ps, c) == [params |-> ps, count |-> c, cut |-> 0]

MCReports ==
  {R(<<e>>, 0) : e \in Entries} \cup
  {R(<<Cut(Topology, n)>>, 0) : n \in {1, 2, 18, 34}} \cup
  {R(<<e, Battery>>, n) : e \in Entries, n \in {0, 1, 3}} \cup
  {R(<<Temperature, e>>, n) : e \in {Wind, Waveform}, n \in {0, 2, 5}} \cup
  {R(<<Temperature, e, f>>, 0) : e, f \in {Unknown, Heartbeat}} \cup
  {R(<<Temperature, Spectrum>>, 400)} \cup
  {R(<<>>, 0), R(<<Heartbeat>>, 2), R(<<Heartbeat, Heartbeat>>, 2)} \cup
  {Counted(<<Temperature, Battery>>, c) : c \in {0, 1, 3, 15}}

MCTimeStamp == <<120, 86, 52, 18>>
=============================================================================
