----------------------------- MODULE HeapHandles -----------------------------
(***************************************************************************)
(* What a heap promises to the holder of a handle (heap.h), whatever it    *)
(* does with its memory: the bytes last written through a handle stay, and *)
(* a locked block stays where heapLock said it is.                         *)
(***************************************************************************)
CONSTANTS
  Handle,
  Place,   \* where a block can be
  Junk,    \* the contents of a block nobody wrote to
  Nowhere  \* the block is not locked: it may move

VARIABLES
  mode,      \* "none", "free" to move, or "locked"
  contents,  \* contents[h] = h once the holder of h wrote its data
  place      \* the pointer heapLock returned

hvars == <<mode, contents, place>>

Init ==
  /\ mode = [h \in Handle |-> "none"]
  /\ contents = [h \in Handle |-> Junk]
  /\ place = [h \in Handle |-> Nowhere]

Allocate(h) ==
  /\ mode[h] = "none"
  /\ mode' = [mode EXCEPT ![h] = "free"]
  /\ UNCHANGED <<contents, place>>

Deallocate(h) ==
  /\ mode[h] = "free"
  /\ mode' = [mode EXCEPT ![h] = "none"]
  /\ contents' = [contents EXCEPT ![h] = Junk]
  /\ UNCHANGED place

Lock(h) ==
  /\ mode[h] = "free"
  /\ mode' = [mode EXCEPT ![h] = "locked"]
  /\ \E p \in Place : place' = [place EXCEPT ![h] = p]
  /\ UNCHANGED contents

Write(h) ==
  /\ mode[h] = "locked"
  /\ contents' = [contents EXCEPT ![h] = h]
  /\ UNCHANGED <<mode, place>>

Unlock(h) ==
  /\ mode[h] = "locked"
  /\ mode' = [mode EXCEPT ![h] = "free"]
  /\ place' = [place EXCEPT ![h] = Nowhere]
  /\ UNCHANGED contents

Next == \E h \in Handle : Allocate(h) \/ Deallocate(h) \/ Lock(h) \/ Write(h) \/ Unlock(h)

Spec == Init /\ [][Next]_hvars
=============================================================================
