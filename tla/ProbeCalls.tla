----------------------------- MODULE ProbeCalls -----------------------------
(***************************************************************************)
(* A target thread that runs through probed functions: entry_stub and      *)
(* exit_stub (stub.S) and the TLS shadow stack of zt_payload.c.            *)
(*                                                                         *)
(* entry_stub logs the call, runs the probe's call action, saves the       *)
(* return address in saved_frames and replaces it by exit_stub.  exit_stub *)
(* logs the return and jumps to the address it takes from saved_frames.    *)
(* The model keeps the machine stack next to the shadow stack, so that a   *)
(* return that leaves for the wrong place can be told from a right one.    *)
(*                                                                         *)
(* A return address is the number of the call that pushed it.  A tail call *)
(* enters a function with the caller's own return address on the stack,    *)
(* which is exit_stub when the caller was probed.                          *)
(***************************************************************************)
EXTENDS Integers, Sequences, Functions

CONSTANTS Threads,
          Probes,         \* probe ids, positive numbers
          ActionProbes,   \* probes with a call action
          Signals,        \* may a signal handler interrupt the payload?
          Unwinds,        \* may the target leave frames with longjmp?
          MaxSaved,       \* ZT_MAX_SAVED_RET_ADDR
          MaxDepth,       \* bound: frames on the machine stack of a thread
          MaxCalls        \* bound: calls a thread makes

ASSUME ProbesAssumption ==
    Probes \subseteq Nat \ {0} /\ ActionProbes \subseteq Probes
ASSUME OptionsAssumption == Signals \in BOOLEAN /\ Unwinds \in BOOLEAN
ASSUME MaxSavedAssumption == MaxSaved \in Nat \ {0}
ASSUME CallBoundsAssumption == MaxDepth \in Nat /\ MaxCalls \in Nat

VARIABLES
    stack,           \* per thread: the activations, the running one last
    calls,           \* per thread: calls made so far
    \* zt_payload.c
    saved_frames, call_stack_idx, last_call_id, in_call_action,
    g_call_id_seq,
    \* history, not in the code
    entered,         \* <<thread, call_id>> of the entry events
    returned,        \* <<thread, call_id of the activation, call_id of the return event>>
    recursed,        \* call_ids of entries that another probe hit interrupted
    broken,          \* <<thread, why its shadow stack is out of step>>
    astray           \* threads that left exit_stub for a wrong address

tls == <<saved_frames, call_stack_idx, last_call_id, in_call_action>>
callHistory == <<entered, returned, recursed, broken, astray>>
callVars == <<stack, calls, tls, g_call_id_seq, callHistory>>

\* The address of exit_stub; no call has this number.
ExitStub == 0

\* pc    what the activation does next: run its body, or a step of a stub
\* ret   the address its caller wants it to return to
\* probe the probe hit by its entry, or 0
\* mine  call_id of the probe hit that is being handled
\* ids   the call_ids whose return is pending: empty until the return address
\*       is hijacked, more than one after tail calls
\* base  call_stack_idx when it was called
Frame == [pc : {"body", "entry", "action", "save", "saved", "exit", "pop", "popped"},
          ret : Nat, probe : Nat, mine : Nat, ids : Seq(Nat), base : Nat]

NewFrame(t, probe) ==
    [pc |-> IF probe = 0 THEN "body" ELSE "entry", ret |-> calls[t] + 1,
     probe |-> probe, mine |-> 0, ids |-> <<>>, base |-> call_stack_idx[t]]

CallInit ==
    /\ stack = [t \in Threads |-> <<[pc |-> "body", ret |-> ExitStub, probe |-> 0,
                                     mine |-> 0, ids |-> <<>>, base |-> 0]>>]
    /\ calls = [t \in Threads |-> 0]
    /\ saved_frames = [t \in Threads |-> [i \in 0 .. MaxSaved - 1 |->
                                            [ret_addr |-> 0, probe_id |-> 0, call_id |-> 0]]]
    /\ call_stack_idx = [t \in Threads |-> 0]
    /\ last_call_id = [t \in Threads |-> 0]
    /\ in_call_action = [t \in Threads |-> FALSE]
    /\ g_call_id_seq = 0
    /\ entered = {}
    /\ returned = {}
    /\ recursed = {}
    /\ broken = {}
    /\ astray = {}
-----------------------------------------------------------------------------
Depth(t) == Len(stack[t])
Top(t) == stack[t][Depth(t)]
Below(t) == SubSeq(stack[t], 1, Depth(t) - 1)
At(t, pc) == t \notin astray /\ Top(t).pc = pc

\* Activations below the running one that stand at one of the pcs.
Suspended(t, pcs) == {f \in Range(Below(t)) : f.pc \in pcs}

\* The running activation goes on as f.
Continue(t, f) == stack' = [stack EXCEPT ![t] = Append(Below(t), f)]

\* A call needs room on the machine stack.
MayCall(t) == calls[t] < MaxCalls /\ Depth(t) < MaxDepth

\* The target calls a function with the probe, or without one (0).
Call(t, probe) ==
    /\ At(t, "body")
    /\ MayCall(t)
    /\ stack' = [stack EXCEPT ![t] = Append(@, NewFrame(t, probe))]
    /\ calls' = [calls EXCEPT ![t] = @ + 1]
    /\ UNCHANGED <<tls, g_call_id_seq, callHistory>>

\* It jumps to a probed function in place of its own return.
TailCall(t, probe) ==
    /\ At(t, "body")
    /\ calls[t] < MaxCalls
    /\ Depth(t) > 1
    /\ Continue(t, [Top(t) EXCEPT !.pc = "entry", !.probe = probe])
    /\ calls' = [calls EXCEPT ![t] = @ + 1]
    /\ UNCHANGED <<tls, g_call_id_seq, callHistory>>

\* A signal handler starts, wherever the thread is.
Signal(t) ==
    /\ Signals
    /\ t \notin astray
    /\ MayCall(t)
    /\ stack' = [stack EXCEPT ![t] = Append(@, NewFrame(t, 0))]
    /\ calls' = [calls EXCEPT ![t] = @ + 1]
    /\ UNCHANGED <<tls, g_call_id_seq, callHistory>>

\* longjmp to an activation further down; the payload is not told.  A handler
\* that interrupted an update of saved_frames is assumed to return.
Longjmp(t, d) ==
    /\ Unwinds
    /\ At(t, "body")
    /\ Suspended(t, {"saved", "popped"}) = {}
    /\ d < Depth(t)
    /\ stack[t][d].pc = "body"
    /\ stack' = [stack EXCEPT ![t] = SubSeq(@, 1, d)]
    /\ broken' = IF \E e \in d + 1 .. Depth(t) : stack[t][e].probe # 0
                 THEN broken \cup {<<t, "unwound">>} ELSE broken
    /\ UNCHANGED <<calls, tls, g_call_id_seq, entered, returned, recursed, astray>>

\* Mutant: actions run inside actions.
MutantRunsAction(t) == Top(t).probe \in ActionProbes

RunsAction(t) == Top(t).probe \in ActionProbes /\ ~in_call_action[t]

\* zt_handle_entry up to the call of the action, when the probe has one and the
\* thread is not inside an action already.  The action's callee may be probed.
HandleEntry(t, callee) ==
    LET call_id == g_call_id_seq + 1
        f == [Top(t) EXCEPT !.mine = call_id, !.pc = IF RunsAction(t) THEN "action" ELSE "save"]
    IN
    /\ At(t, "entry")
    /\ g_call_id_seq' = call_id
    /\ last_call_id' = [last_call_id EXCEPT ![t] = call_id]
    /\ entered' = entered \cup {<<t, call_id>>}
    /\ recursed' = recursed \cup {g.mine : g \in Suspended(t, {"action", "save"})}
    /\ IF RunsAction(t)
       THEN /\ MayCall(t)
            /\ stack' = [stack EXCEPT ![t] = Below(t) \o <<f, NewFrame(t, callee)>>]
            /\ calls' = [calls EXCEPT ![t] = @ + 1]
            /\ in_call_action' = [in_call_action EXCEPT ![t] = TRUE]
       ELSE /\ callee = 0
            /\ Continue(t, f)
            /\ UNCHANGED <<calls, in_call_action>>
    /\ UNCHANGED <<saved_frames, call_stack_idx, returned, broken, astray>>

\* The action's callee is back: the rest of zt_run_call_action.
EndAction(t) ==
    /\ At(t, "action")
    /\ in_call_action' = [in_call_action EXCEPT ![t] = FALSE]
    /\ Continue(t, [Top(t) EXCEPT !.pc = "save"])
    /\ UNCHANGED <<calls, saved_frames, call_stack_idx, last_call_id, g_call_id_seq, callHistory>>

\* The return address entry_stub finds on the machine stack.
ReturnSlot(f) == IF f.ids = <<>> THEN f.ret ELSE ExitStub

\* entry_stub puts exit_stub into the return address and starts the function.
Hijack(f) == [f EXCEPT !.pc = "body", !.ids = Append(@, f.mine)]

\* save_probe_frame_c: the three stores, or the failure that entry_stub ignores.
SaveStore(t) ==
    /\ At(t, "save")
    /\ IF call_stack_idx[t] >= MaxSaved
       THEN /\ Continue(t, Hijack(Top(t)))
            /\ broken' = broken \cup {<<t, "overflow">>}
            /\ UNCHANGED saved_frames
       ELSE /\ saved_frames' = [saved_frames EXCEPT ![t][call_stack_idx[t]] =
                                  [ret_addr |-> ReturnSlot(Top(t)), probe_id |-> Top(t).probe,
                                   call_id |-> last_call_id[t]]]
            /\ Continue(t, [Top(t) EXCEPT !.pc = "saved"])
            /\ broken' = IF Suspended(t, {"saved", "popped"}) # {}
                         THEN broken \cup {<<t, "clobbered">>} ELSE broken
    /\ UNCHANGED <<calls, call_stack_idx, last_call_id, in_call_action, g_call_id_seq,
                   entered, returned, recursed, astray>>

\* Mutant: calls made by a call action are not kept.
MutantSavePush(t) ==
    /\ At(t, "saved")
    /\ call_stack_idx' = [call_stack_idx EXCEPT ![t] = IF in_call_action[t] THEN @ ELSE @ + 1]
    /\ Continue(t, Hijack(Top(t)))
    /\ UNCHANGED <<calls, saved_frames, last_call_id, in_call_action, g_call_id_seq, callHistory>>

\* ... and ++call_stack_idx.
SavePush(t) ==
    /\ At(t, "saved")
    /\ call_stack_idx' = [call_stack_idx EXCEPT ![t] = @ + 1]
    /\ Continue(t, Hijack(Top(t)))
    /\ UNCHANGED <<calls, saved_frames, last_call_id, in_call_action, g_call_id_seq, callHistory>>

\* The function returns, to its caller or to exit_stub.
Return(t) ==
    /\ At(t, "body")
    /\ Depth(t) > 1
    /\ IF Top(t).ids = <<>>
       THEN stack' = [stack EXCEPT ![t] = Below(t)]
       ELSE Continue(t, [Top(t) EXCEPT !.pc = "exit"])
    /\ UNCHANGED <<calls, tls, g_call_id_seq, callHistory>>

\* Mutants: the return event takes the newest call_id, or is left out inside a
\* call action.
MutantHandleReturn(t) ==
    /\ At(t, "exit")
    /\ returned' = returned \cup {<<t, Top(t).ids[Len(Top(t).ids)], last_call_id[t]>>}
    /\ Continue(t, [Top(t) EXCEPT !.pc = "pop"])
    /\ UNCHANGED <<calls, tls, g_call_id_seq, entered, recursed, broken, astray>>
MutantQuietReturn(t) ==
    /\ At(t, "exit")
    /\ returned' = IF call_stack_idx[t] > 0 /\ ~in_call_action[t]
                   THEN returned \cup {<<t, Top(t).ids[Len(Top(t).ids)],
                                         saved_frames[t][call_stack_idx[t] - 1].call_id>>}
                   ELSE returned
    /\ Continue(t, [Top(t) EXCEPT !.pc = "pop"])
    /\ UNCHANGED <<calls, tls, g_call_id_seq, entered, recursed, broken, astray>>

\* peek_probe_id_c and zt_handle_return: no event when saved_frames is empty.
HandleReturn(t) ==
    /\ At(t, "exit")
    /\ returned' = IF call_stack_idx[t] > 0
                   THEN returned \cup {<<t, Top(t).ids[Len(Top(t).ids)],
                                         saved_frames[t][call_stack_idx[t] - 1].call_id>>}
                   ELSE returned
    /\ Continue(t, [Top(t) EXCEPT !.pc = "pop"])
    /\ UNCHANGED <<calls, tls, g_call_id_seq, entered, recursed, broken, astray>>

\* Where the caller of f is waiting: exit_stub again when f was tail called.
WantedAddress(f) == IF Len(f.ids) > 1 THEN ExitStub ELSE f.ret

\* exit_stub jumps to addr.
ResumeAt(t, addr) ==
    LET f == Top(t) IN
    IF addr = WantedAddress(f)
    THEN /\ stack' = [stack EXCEPT ![t] =
                        IF Len(f.ids) > 1
                        THEN Append(Below(t), [f EXCEPT !.pc = "exit",
                                                        !.ids = SubSeq(@, 1, Len(@) - 1)])
                        ELSE Below(t)]
         /\ UNCHANGED astray
    ELSE /\ astray' = astray \cup {t}
         /\ UNCHANGED stack

\* get_ret_addr_c: --call_stack_idx, or address 0 when saved_frames is empty ...
PopDec(t) ==
    /\ At(t, "pop")
    /\ IF call_stack_idx[t] > 0
       THEN /\ call_stack_idx' = [call_stack_idx EXCEPT ![t] = @ - 1]
            /\ Continue(t, [Top(t) EXCEPT !.pc = "popped"])
            /\ UNCHANGED astray
       ELSE /\ astray' = astray \cup {t}
            /\ UNCHANGED <<stack, call_stack_idx>>
    /\ UNCHANGED <<calls, saved_frames, last_call_id, in_call_action, g_call_id_seq,
                   entered, returned, recursed, broken>>

\* ... and the load of the address.
PopRead(t) ==
    /\ At(t, "popped")
    /\ ResumeAt(t, saved_frames[t][call_stack_idx[t]].ret_addr)
    /\ UNCHANGED <<calls, tls, g_call_id_seq, entered, returned, recursed, broken>>

Stub(t) ==
    \/ \E callee \in Probes \cup {0} : HandleEntry(t, callee)
    \/ EndAction(t) \/ SaveStore(t) \/ SavePush(t)
    \/ HandleReturn(t) \/ PopDec(t) \/ PopRead(t)

Step(t) ==
    \/ \E probe \in Probes \cup {0} : Call(t, probe)
    \/ \E probe \in Probes : TailCall(t, probe)
    \/ Signal(t)
    \/ \E d \in 1 .. Depth(t) - 1 : Longjmp(t, d)
    \/ Return(t)
    \/ Stub(t)

CallNext == \E t \in Threads : Step(t)

CallSpec == CallInit /\ [][CallNext]_callVars
-----------------------------------------------------------------------------
(* Properties.                                                             *)

\* Every variable stays in its type.
CallTypeOK ==
    /\ \A t \in Threads : Depth(t) \in 1 .. MaxDepth + 1 /\ \A d \in 1 .. Depth(t) : stack[t][d] \in Frame
    /\ calls \in [Threads -> 0 .. MaxCalls]
    /\ saved_frames \in [Threads -> [0 .. MaxSaved - 1 ->
                           [ret_addr : Nat, probe_id : Nat, call_id : Nat]]]
    /\ call_stack_idx \in [Threads -> 0 .. MaxSaved]
    /\ last_call_id \in [Threads -> Nat]
    /\ in_call_action \in [Threads -> BOOLEAN]
    /\ g_call_id_seq \in Nat
    /\ entered \subseteq Threads \X Nat
    /\ returned \subseteq Threads \X Nat \X Nat
    /\ recursed \subseteq Nat
    /\ broken \subseteq Threads \X {"overflow", "clobbered", "unwound"}
    /\ astray \subseteq Threads

InStep(t) == \A b \in broken : b[1] # t

\* exit_stub resumes the original caller, through nested calls, recursion, call
\* actions, tail calls and signal handlers, unless one of three things happened:
\* saved_frames was full and entry_stub replaced the return address all the same,
\* a handler hit a probe while save_probe_frame_c or get_ret_addr_c was between
\* the frame and the index, or the target left probed functions with longjmp.
StrayExplained == \A t \in astray : ~InStep(t)

\* The comment in save_probe_frame_c promises it without exceptions.
Transparent == astray = {}

\* A return event carries the call_id of its own call, unless another probe hit
\* came between its zt_handle_entry and its save_probe_frame_c, from the call
\* action or from a signal handler: last_call_id is then the inner one.
ReturnPaired ==
    \A r \in returned : InStep(r[1]) /\ r[2] \notin recursed => r[2] = r[3]

\* The comment in zt_handle_entry promises it without the exception, which a call
\* action whose callee is probed provides.
SameCallId == \A r \in returned : InStep(r[1]) => r[2] = r[3]

\* Once a thread is back in its outermost function, its shadow stack is empty and
\* each entry event has had its return event.
Balanced ==
    \A t \in Threads : InStep(t) /\ Depth(t) = 1 =>
        /\ call_stack_idx[t] = 0
        /\ \A c \in 1 .. g_call_id_seq :
               <<t, c>> \in entered => \E r \in returned : r[1] = t /\ r[2] = c

\* in_call_action keeps the function called by an action from running actions.
NoNestedAction ==
    \A t \in Threads : \A d, e \in 1 .. Depth(t) :
        stack[t][d].pc = "action" /\ stack[t][e].pc = "action" => d = e
=============================================================================
