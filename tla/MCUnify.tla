------------------------------ MODULE MCUnify -------------------------------
(* Definitions of small programs, for Unify.                               *)
EXTENDS Unify

Definitions(strings, regions, communicators, windows, callpaths) ==
  [string |-> strings, region |-> regions, communicator |-> communicators,
   rma_window |-> windows, callpath |-> callpaths]
RegionAt(name, line) == [name |-> name, line |-> line]
Communicator(groups, unify_key, parentHandle, name) ==
  [groups |-> groups, unify_key |-> unify_key, parent |-> parentHandle, name |-> name]
World == Communicator(<<"all", "all">>, 0, 0, 0)
Window(communicator, creation_id, name, has_default_name) ==
  [communicator |-> communicator, creation_id |-> creation_id, name |-> name,
   has_default_name |-> has_default_name]
Path(parentHandle, region) == [parent |-> parentHandle, region |-> region]

(* main calls foo; a window on all processes.                              *)
Calling ==
  Definitions(<<"", "main", "win", "foo">>, <<RegionAt(2, 1), RegionAt(4, 1)>>, <<World>>,
              <<Window(1, 0, 3, TRUE)>>, <<Path(0, 1), Path(1, 2)>>)
(* The same names in another order and for other regions, a communicator   *)
(* of a part, an intercommunicator without its peer, a call path twice.    *)
Parts ==
  Definitions(<<"", "foo", "main">>, <<RegionAt(2, 1), RegionAt(3, 1), RegionAt(2, 7)>>,
              <<World, Communicator(<<"some", "some">>, 0, 1, 2),
                Communicator(<<"some", "rest">>, 1, 0, 0)>>,
              <<Window(2, 0, 0, TRUE), Window(1, 0, 2, TRUE)>>,
              <<Path(0, 2), Path(1, 1), Path(0, 2), Path(3, 3)>>)
(* The intercommunicator with its peer, no region and no window.           *)
Peer ==
  Definitions(<<"", "peer">>, <<>>, <<World, Communicator(<<"some", "rest">>, 1, 1, 2)>>,
              <<>>, <<>>)
Programs2 == {Calling, Parts, Peer}

(* Any of these on each of up to four processes; and eight, where a        *)
(* process is three levels below the root.                                 *)
UpToFour == UNION {[0 .. n - 1 -> Programs2] : n \in 1 .. 4}
Eight == {[p \in 0 .. 7 |-> IF p % 3 = 0 THEN Calling ELSE IF p % 3 = 1 THEN Parts ELSE Peer]}
SmallPrograms == UpToFour \cup Eight

(* Two processes, one of which has named the window.                       *)
Naming(p) ==
  Definitions(<<"", "win", "mine">>, <<>>, <<World>>,
              <<Window(1, 0, IF p = 0 THEN 3 ELSE 2, p # 0)>>, <<>>)
NamedAtRoot == {[p \in 0 .. 1 |-> Naming(p)]}
=============================================================================
