------------------------------ MODULE VMHandle ------------------------------
(***************************************************************************)
(* The class qcvm::VM of vm.hpp: handles that own a QC_VM through an atomic  *)
(* pointer, and threads that construct, move, assign, use and destroy them.  *)
(* Each exchange of a pointer is a step.  A VM is the address of its memory, *)
(* which is used again after it was destroyed.                              *)
(*                                                                          *)
(* What callers do: a handle is constructed once before and destroyed once   *)
(* after all else, and while a member function uses the VM of a handle no    *)
(* other thread moves the handle or assigns to it.  Moves and assignments    *)
(* meet in any way.                                                         *)
(*                                                                          *)
(* VMProofs extends this module and VM: the two share no name.              *)
(***************************************************************************)
EXTENDS Naturals, FiniteSets

CONSTANTS
  Thread,
  Slot,       \* the places of handles
  VM,         \* where VMs can be allocated
  Null,       \* nullptr
  Raw         \* the content of a place without a handle

ASSUME VMHandleAssumption ==
  Null \notin VM \cup Slot /\ Raw \notin VM /\ Null # Raw

VARIABLES
  m_vm,       \* the pointer of each handle
  living,     \* the VMs that have been created and not destroyed
  op          \* what each thread is doing

handleVars == <<m_vm, living, op>>

\* at: what is done next; vm: the pointer the thread has in its hand, or uses.
Op == [at : {"idle", "put", "exchange", "drop", "end", "use"},
       dst : Slot \cup {Null}, src : Slot \cup {Null}, vm : VM \cup {Null}]

Idle == [at |-> "idle", dst |-> Null, src |-> Null, vm |-> Null]

HandleTypeOK ==
  /\ m_vm \in [Slot -> VM \cup {Null, Raw}]
  /\ living \subseteq VM
  /\ op \in [Thread -> Op]

HandleInit ==
  /\ m_vm = [s \in Slot |-> Raw]
  /\ living = {}
  /\ op = [t \in Thread |-> Idle]

Now(t, at, dst, src, vm) ==
  op' = [op EXCEPT ![t] = [at |-> at, dst |-> dst, src |-> src, vm |-> vm]]

\* The threads that move, assign or destroy a handle, and those that use one.
Changing(s) == {t \in Thread : op[t].at # "use" /\ s \in {op[t].dst, op[t].src}}
Using(s) == {t \in Thread : op[t].at = "use" /\ op[t].src = s}

IsHandle(s) == m_vm[s] # Raw

-----------------------------------------------------------------------------
\* Mutants.
LoadedFrom(map, s) == map

AssignForgets(t) ==
  /\ op[t].at = "exchange"
  /\ m_vm' = [m_vm EXCEPT ![op[t].dst] = op[t].vm]
  /\ op' = [op EXCEPT ![t] = Idle]
  /\ UNCHANGED living

-----------------------------------------------------------------------------

\* m_vm.exchange(nullptr), as the pointers are after it.
Emptied(map, s) == [map EXCEPT ![s] = Null]

\* VM(flags, allocator): a creation that fails throws, and there is no handle.
Construct(t, s) ==
  /\ op[t] = Idle
  /\ ~IsHandle(s) /\ Changing(s) = {}
  /\ \E vm \in VM \ living :
       /\ living' = living \cup {vm}
       /\ m_vm' = [m_vm EXCEPT ![s] = vm]
  /\ UNCHANGED op

\* VM(VM &&other): the pointer is taken, then put into the new handle.
MoveConstruct(t, dst, src) ==
  /\ op[t] = Idle
  /\ ~IsHandle(dst) /\ Changing(dst) = {}
  /\ IsHandle(src) /\ Using(src) = {}
  /\ \A u \in Changing(src) : op[u].at # "end"
  /\ m_vm' = Emptied(m_vm, src)
  /\ Now(t, "put", dst, src, m_vm[src])
  /\ UNCHANGED living

Put(t) ==
  /\ op[t].at = "put"
  /\ m_vm' = [m_vm EXCEPT ![op[t].dst] = op[t].vm]
  /\ op' = [op EXCEPT ![t] = Idle]
  /\ UNCHANGED living

\* operator=(VM &&other): the pointer is taken from other, exchanged with that of
\* this handle, and what was in this handle is destroyed.  Moving to itself does
\* nothing.
MoveAssign(t, dst, src) ==
  /\ op[t] = Idle /\ dst # src
  /\ \A s \in {dst, src} :
       /\ IsHandle(s) /\ Using(s) = {}
       /\ \A u \in Changing(s) : op[u].at # "end"
  /\ m_vm' = Emptied(m_vm, src)
  /\ Now(t, "exchange", dst, src, m_vm[src])
  /\ UNCHANGED living

Exchange(t) ==
  /\ op[t].at = "exchange"
  /\ m_vm' = [m_vm EXCEPT ![op[t].dst] = op[t].vm]
  /\ Now(t, "drop", op[t].dst, op[t].src, m_vm[op[t].dst])
  /\ UNCHANGED living

Drop(t) ==
  /\ op[t].at = "drop"
  /\ living' = living \ {op[t].vm}
  /\ op' = [op EXCEPT ![t] = Idle]
  /\ UNCHANGED m_vm

\* ~VM(): the pointer is taken and its VM destroyed.
Destroy(t, s) ==
  /\ op[t] = Idle
  /\ IsHandle(s) /\ Changing(s) = {} /\ Using(s) = {}
  /\ m_vm' = Emptied(m_vm, s)
  /\ Now(t, "end", s, s, m_vm[s])
  /\ UNCHANGED living

End(t) ==
  /\ op[t].at = "end"
  /\ living' = living \ {op[t].vm}
  /\ m_vm' = [m_vm EXCEPT ![op[t].dst] = Raw]
  /\ op' = [op EXCEPT ![t] = Idle]

\* resetDefaultBuiltins and setBuiltin: the pointer is loaded, and the VM used.
Use(t, s) ==
  /\ op[t] = Idle
  /\ IsHandle(s) /\ Changing(s) = {}
  /\ Now(t, "use", Null, s, m_vm[s])
  /\ UNCHANGED <<m_vm, living>>

Used(t) ==
  /\ op[t].at = "use"
  /\ op' = [op EXCEPT ![t] = Idle]
  /\ UNCHANGED <<m_vm, living>>

HandleNext ==
  \E t \in Thread :
    \/ \E s \in Slot : Construct(t, s) \/ Destroy(t, s) \/ Use(t, s)
    \/ \E dst, src \in Slot : MoveConstruct(t, dst, src) \/ MoveAssign(t, dst, src)
    \/ Put(t) \/ Exchange(t) \/ Drop(t) \/ End(t) \/ Used(t)

HandleSpec == HandleInit /\ [][HandleNext]_handleVars

-----------------------------------------------------------------------------
(***************************************************************************)
(* Properties.                                                              *)
(***************************************************************************)

\* Where a VM is: in handles, and in the hands of threads between two exchanges.
Handles(vm) == {s \in Slot : m_vm[s] = vm}
Hands(vm) == {t \in Thread : op[t].at # "use" /\ op[t].vm = vm}

\* However moves and assignments meet, a VM that is alive is in one place, in one
\* handle or in one hand, so that it is neither leaked nor destroyed twice; and one
\* that was destroyed is in none.
OneHolder ==
  \A vm \in VM :
    IF vm \in living
    THEN \/ Hands(vm) = {} /\ \E s \in Slot : Handles(vm) = {s}
         \/ Handles(vm) = {} /\ \E t \in Thread : Hands(vm) = {t}
    ELSE Handles(vm) = {} /\ Hands(vm) = {}

\* The VM a member function uses is alive until it is done, and is that of its
\* handle: no other handle has the same VM, through which it could be destroyed.
UsesAreAlive ==
  \A t \in Thread :
    op[t].at = "use" =>
      /\ m_vm[op[t].src] = op[t].vm
      /\ op[t].vm # Null => op[t].vm \in living
=============================================================================
