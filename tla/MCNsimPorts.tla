---------------------------- MODULE MCNsimPorts ----------------------------
(***************************************************************************)
(* Devices for model checking NsimPorts: a and b were created with the    *)
(* logical clock id 1, c with -1; a and c have two ports.                  *)
(***************************************************************************)
EXTENDS NsimPorts

MCPorts    == {"a0", "a1", "b0", "c0", "c1"}
MCDeviceOf == [a0 |-> "a", a1 |-> "a", b0 |-> "b", c0 |-> "c", c1 |-> "c"]
MCClkId    == [a |-> 1, b |-> 1, c |-> 0]
MCUnique   == 0

\* One piece of memory is as good as another.
PhcSymmetry == Permutations(Phcs)

\* What a port does with freed memory is undefined: TLC goes no further.
Defined == ~stale
=============================================================================
