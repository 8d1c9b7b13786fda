------------------------------ MODULE CatchStack -----------------------------
(* The fail effect in a compiled program.  A try body and a body handled      *)
(* against fail.raise each push a heap-allocated catch frame on the thread's  *)
(* ring_catch_stack; ring_raise jumps to the frame on top, whichever scope    *)
(* pushed it.  Every way out of such a body has to pop exactly its own frame  *)
(* and drop exactly its own evidence structs: the generated code does so at   *)
(* the end of a body, on its catch path and in front of each return, from a   *)
(* list of the lexically enclosing scopes the compiler keeps for the function *)
(* it is emitting.                                                            *)
EXTENDS Naturals, Sequences, SequencesExt, FiniteSets

CONSTANTS
    Frame,       \* addresses a catch frame can be allocated at
    Evidence,    \* addresses an evidence struct can be allocated at
    MaxDepth,    \* bound: nested activations
    BreakThrough \* do programs leave a handled body by break or continue

None == <<"none">>

ASSUME CatchAssumption ==
    MaxDepth \in Nat /\ BreakThrough \in BOOLEAN /\ None \notin Frame

VARIABLES
    act,     \* activations, outermost first: [kind, frame, evs]
    frames,  \* ring_catch_stack, top first
    live,    \* evidence structs allocated and not dropped
    status   \* "run", "done", "panic", "stray" or "fault"
vars == <<act, frames, live, status>>

Plain(kind) == [kind |-> kind, frame |-> None, evs |-> {}]
Body(f, evs) == [kind |-> "body", frame |-> f, evs |-> evs]

Top == Last(act)
Running == status = "run"
Inner(n) == SubSeq(act, n + 1, Len(act))
CatchesIn(s) == Cardinality({i \in DOMAIN s : s[i].frame # None})
EvsOf(s) == UNION {s[i].evs : i \in DOMAIN s}
\* The innermost activation of a kind; the program is always in a function.
Innermost(kind) == CHOOSE n \in DOMAIN act :
    act[n].kind = kind /\ \A i \in DOMAIN act : i > n => act[i].kind # kind

\* The state is well formed; no way out of a body pops a frame that is not there
\* or drops evidence that is gone.
TypeOK ==
    /\ \A i \in DOMAIN act :
           /\ act[i].kind \in {"fn", "loop", "body"}
           /\ act[i].frame \in Frame \union {None}
           /\ act[i].evs \subseteq Evidence
    /\ frames \in Seq(Frame)
    /\ live \subseteq Evidence
    /\ status \in {"run", "done", "panic", "stray"}

Init == /\ act = <<Plain("fn")>>
        /\ frames = << >>
        /\ live = {}
        /\ status = "run"

\* Scopes are left with ring_catch_pop called n times and evs dropped.  A pop of
\* an empty stack dereferences null, and a second drop reads a freed block.
LeaveTo(rest, n, evs) ==
    LET ok == n <= Len(frames) /\ evs \subseteq live
    IN  /\ act' = rest
        /\ frames' = SubSeq(frames, n + 1, Len(frames))
        /\ live' = live \ evs
        /\ status' = CASE ~ok         -> "fault"
                       [] rest = << >> -> "done"
                       [] OTHER        -> status

----------------------------------------------------------------------------
\* A function, a closure or a handler arm called through its evidence slot; or
\* a loop.  Neither has a frame or evidence of its own.
Enter(kind) ==
    /\ Running /\ Len(act) < MaxDepth
    /\ act' = Append(act, Plain(kind))
    /\ UNCHANGED <<frames, live, status>>

\* gen_c_try_catch: a new frame, armed, and then the body inline.
EnterTry ==
    /\ Running /\ Len(act) < MaxDepth
    /\ \E f \in Frame \ Range(frames) :
           /\ act' = Append(act, Body(f, {}))
           /\ frames' = <<f>> \o frames
    /\ UNCHANGED <<live, status>>

\* gen_c_handle_expr: one evidence struct per handled effect other than fail,
\* and a frame when fail.raise is among the handled operations.
EnterHandle ==
    /\ Running /\ Len(act) < MaxDepth
    /\ \E evs \in SUBSET (Evidence \ live) :
           /\ live' = live \union evs
           /\ \/ /\ evs # {}
                 /\ act' = Append(act, Body(None, evs))
                 /\ UNCHANGED frames
              \/ \E f \in Frame \ Range(frames) :
                     /\ act' = Append(act, Body(f, evs))
                     /\ frames' = <<f>> \o frames
    /\ UNCHANGED status

\* The normal end of a body: its epilogue pops and drops.
EndBody ==
    /\ Running /\ Top.kind = "body"
    /\ LeaveTo(Front(act), CatchesIn(<<Top>>), Top.evs)

\* The loop condition is false.
EndLoop ==
    /\ Running /\ Top.kind = "loop"
    /\ act' = Front(act)
    /\ UNCHANGED <<frames, live, status>>

\* Mutant: a return walks only the innermost of the enclosing scopes.
CleanupScopes_One ==
    IF Inner(Innermost("fn")) = << >> THEN << >> ELSE <<Top>>

\* handle_cleanup_stack where the code was emitted: the handled bodies around
\* it in its own function, since each function is emitted with an empty list.
CleanupScopes == Inner(Innermost("fn"))

\* emit_c_cleanup_walk and then the return, from wherever it stands.
Return ==
    /\ Running
    /\ LeaveTo(SubSeq(act, 1, Innermost("fn") - 1),
               CatchesIn(CleanupScopes), EvsOf(CleanupScopes))

\* `break` or `continue`: the C statement alone, with no cleanup walk.  The
\* loop is in the function of the statement.
LoopExit ==
    /\ Running
    /\ \E n \in DOMAIN act :
           /\ act[n].kind = "loop" /\ n > Innermost("fn")
           /\ \A i \in DOMAIN act : i > n => act[i].kind # "loop"
           /\ BreakThrough \/ \A i \in DOMAIN act : i > n => act[i].kind # "body"
           /\ \/ act' = SubSeq(act, 1, n - 1)
              \/ act' = SubSeq(act, 1, n)
    /\ UNCHANGED <<frames, live, status>>

\* Mutant: the catch path forgets to drop the handler's own evidence.
CatchPath_KeepsEvidence(n) == LeaveTo(SubSeq(act, 1, n - 1), 1, {})

\* Mutant: the catch path runs its arms before the frame is popped.
CatchPath_NoPop(n) == LeaveTo(SubSeq(act, 1, n - 1), 0, act[n].evs)

\* The catch path: the frame on top is popped and the handler's evidence is
\* dropped before the arm runs, as part of the enclosing scope.
CatchPath(n) == LeaveTo(SubSeq(act, 1, n - 1), 1, act[n].evs)

\* ring_raise.  A frame whose body is no longer running is one a jump lands in
\* a scope that was left: its catch arms run again there, or, once its function
\* has returned, anything happens.
Raise ==
    /\ Running
    /\ IF frames = << >>
       THEN status' = "panic" /\ UNCHANGED <<act, frames, live>>
       ELSE LET catching == {n \in DOMAIN act : act[n].frame = Head(frames)}
            IN  IF catching # {}
                THEN \E n \in catching : CatchPath(n)
                ELSE status' = "stray" /\ UNCHANGED <<act, frames, live>>

Next == \/ Enter("fn") \/ Enter("loop")
        \/ EnterTry \/ EnterHandle
        \/ EndBody \/ EndLoop
        \/ Return \/ LoopExit \/ Raise

Spec == Init /\ [][Next]_vars

----------------------------------------------------------------------------
\* The catch stack is the try and abort bodies that are running, innermost on
\* top, in every function of the call stack.
FramesAreBodies ==
    /\ TypeOK
    /\ Running =>
           /\ Len(frames) = CatchesIn(act)
           /\ \A i \in DOMAIN act :
                  act[i].frame # None => frames[CatchesIn(Inner(i)) + 1] = act[i].frame

\* A handled body's evidence is live as long as the body can perform one of
\* its operations, and no two bodies share a struct.
EvidenceOutlivesBody ==
    Running => \A i, j \in DOMAIN act :
        /\ act[i].evs \subseteq live
        /\ i # j => act[i].evs \intersect act[j].evs = {}

\* However a body is left, its evidence is released with it.  The one exception
\* is a raise past the body: it lands in an outer body, whose catch path drops
\* only that body's own evidence.
EvidenceReleased ==
    [][Len(act') < Len(act) =>
          LET landing == Len(act') + 1
              left == IF act[landing].kind = "body"
                      THEN {landing} ELSE landing .. Len(act)
          IN  \A i \in left : act[i].evs \intersect live' = {}]_vars

\* Evidence lives as long as its body: no shorter, and no longer.
EvidenceFollowsBody == []EvidenceOutlivesBody /\ EvidenceReleased

\* fail.raise is "longjmp into the innermost frame" (the header comment of the
\* handler code generator): it never lands in a body that was left.
RaiseLandsInBody == status # "stray"

Scopes == [i \in DOMAIN act |->
              [kind |-> act[i].kind, catches |-> act[i].frame # None]]

Promise == INSTANCE CatchSpec WITH scopes <- Scopes

\* The frames implement catching by innermost scope: a raise continues after
\* the innermost body that catches, and panics only when there is none.
CatchesInnermost == Promise!Spec /\ [][Raise => Promise!Raise]_vars
==============================================================================
