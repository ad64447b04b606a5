-------------------- MODULE ApplicationAutomation_proofs --------------------
(***************************************************************************)
(* Proofs about HumanInLoop, and about ApplicationAutomation which drives  *)
(* it, for any number of applications, runs, providers and challenges.  The*)
(* inductive invariant of HumanInLoop is the conjunction of its type       *)
(* invariant and its safety invariants: each of them needs some of the     *)
(* others.  InStep makes a finished workflow land in an allowed status,    *)
(* Linked keeps the rows a guard reads present, PausedWhileInFlight makes  *)
(* resume without a token reach only a challenge that the same step closes.*)
(* Then the steps of ApplicationAutomation are shown to be steps of        *)
(* HumanInLoop, which brings every invariant proved there, and the invariant*)
(* of the automation rows is shown to be inductive on top of them.         *)
(***************************************************************************)
EXTENDS ApplicationAutomation, TLAPS

IInv ==
    /\ TypeOK
    /\ Linked
    /\ UniqueInFlight
    /\ InStep
    /\ AttemptBudget
    /\ ChallengeAccounted
    /\ PausedWhileInFlight

\* challenge_type_for_state yields a challenge type.
LEMMA ChallengeTypeForType ==
    \A s \in DOMAIN ChallengeTypeFor :
        s \in AuthStates /\ ChallengeTypeFor[s] \in ChallengeTypes
  BY DEF ChallengeTypeFor, AuthStates, ChallengeTypes

\* The states that settle a provider, or say nothing of it, ask for no human.
LEMMA SettledAsksNothing ==
    /\ DOMAIN ChallengeTypeFor =
         AuthStates \ {"authenticated", "not_required", "not_configured", "error"}
    /\ NoRow \notin DOMAIN ChallengeTypeFor
  BY ConstantsOK DEF ChallengeTypeFor

\* The absent row is none of the rows.
LEMMA NoRowIsNoRow == NoRow \notin ChallengeRow /\ NoRow \notin WorkflowRow
  BY ConstantsOK

\* _finish_workflow_after_resolution, when it does not raise, keeps a row a row.
LEMMA FinishRow ==
    ASSUME NEW w \in WorkflowRow, FinishOK(w), w.attempts \in 0..MaxAttempts
    PROVE  /\ Finish(w) \in WorkflowRow
           /\ Finish(w).status \in {"running", "completed"}
           /\ Finish(w).attempts \in 0..MaxAttempts
<1> USE DEF WorkflowRow, WorkflowStatus, WorkflowTerminal
<1>1. CASE w.status = "running"
  BY <1>1 DEF Finish
<1>2. CASE w.status # "running"
  <2>1. ~(w.attempts >= MaxAttempts)
    BY <1>2, ZenonT(20) DEF FinishOK, ResumeOK, TooLate
  <2>2. w.attempts + 1 \in 0..MaxAttempts
    BY <2>1, ConstantsOK
  <2>3. Finish(w) = [status |-> "running", attempts |-> w.attempts + 1,
                     expired |-> w.expired]
    BY <1>2 DEF Finish, Resume
  <2>4. Finish(w).attempts = w.attempts + 1
    BY <2>3
  <2>. QED BY <2>2, <2>3, <2>4
<1>. QED BY <1>1, <1>2

\* Type correctness of the initial state and the invariants on empty tables.
LEMMA InitInv == Init => IInv
  BY NoRowIsNoRow, SettledAsksNothing
  DEF Init, IInv, TypeOK, Linked, UniqueInFlight, InStep, AttemptBudget, ChallengeAccounted,
      PausedWhileInFlight, InFlight, Exists

\* A new provider has no challenge.
LEMMA CreateProviderInv ==
    ASSUME IInv, NEW p \in Providers, NEW s \in {"not_required", "not_configured"},
           CreateProvider(p, s)
    PROVE  IInv'
<1> USE DEF IInv
<1>1. TypeOK'
  BY DEF CreateProvider, TypeOK, AuthStates
<1>2. Linked'
  BY ConstantsOK DEF CreateProvider, TypeOK, Linked, Exists, AuthStates, ChallengeRow
<1>3. UniqueInFlight' /\ InStep' /\ AttemptBudget' /\ PausedWhileInFlight'
  BY DEF CreateProvider, UniqueInFlight, InStep, AttemptBudget, PausedWhileInFlight,
         InFlight, Exists
<1>4. ChallengeAccounted'
  BY SettledAsksNothing DEF CreateProvider, TypeOK, ChallengeAccounted, Exists
<1>. QED BY <1>1, <1>2, <1>3, <1>4

\* Deleting a provider deletes its challenges; the runs they paused stay.
LEMMA DeleteProviderInv ==
    ASSUME IInv, NEW p \in Providers, DeleteProvider(p)
    PROVE  IInv'
<1> DEFINE owned == {c \in Ids : Exists(c) /\ challenge[c].provider = p}
<1> USE DEF IInv
<1>1. /\ auth' = [auth EXCEPT ![p] = NoRow]
      /\ challenge' = [c \in Ids |-> IF c \in owned THEN NoRow ELSE challenge[c]]
      /\ workflow' = [c \in Ids |-> IF c \in owned THEN NoRow ELSE workflow[c]]
      /\ toldOver' = toldOver \ owned
  BY DEF DeleteProvider
<1>2. \A c \in Ids : Exists(c)' => /\ c \notin owned /\ Exists(c)
                                  /\ challenge'[c] = challenge[c]
                                  /\ workflow'[c] = workflow[c]
                                  /\ challenge[c].provider # p
  BY <1>1 DEF Exists
<1>3. TypeOK'
  BY <1>1 DEF TypeOK
<1>4. Linked'
  <2>1. \A c \in Ids : challenge'[c] = NoRow <=> workflow'[c] = NoRow
    BY <1>1 DEF Linked
  <2>2. \A c \in Ids : Exists(c)' => auth'[challenge'[c].provider] # NoRow
    BY <1>1, <1>2, NoRowIsNoRow DEF Linked, TypeOK, Exists, ChallengeRow
  <2>3. \A c \in Ids : c \in toldOver' => Exists(c)'
    BY <1>1 DEF Linked, TypeOK, Exists
  <2>. QED BY <2>1, <2>2, <2>3 DEF Linked
<1>5. UniqueInFlight' /\ InStep' /\ PausedWhileInFlight'
  BY <1>2 DEF UniqueInFlight, InStep, PausedWhileInFlight, InFlight, Exists
<1>6. AttemptBudget'
  BY <1>1 DEF AttemptBudget
<1>7. ChallengeAccounted'
  BY <1>1, SettledAsksNothing DEF ChallengeAccounted, TypeOK, Exists
<1>. QED BY <1>3, <1>4, <1>5, <1>6, <1>7

\* Every other handler but ReportSettled writes one challenge row and its
\* workflow row, ch and w.  What the handler must establish of them:
Rows(c, ch, w) ==
    /\ auth' \in [Providers -> AuthStates \cup {NoRow}]
    /\ ch \in ChallengeRow /\ w \in WorkflowRow
    /\ challenge' = [challenge EXCEPT ![c] = ch]
    /\ workflow' = [workflow EXCEPT ![c] = w]
    /\ toldOver' = toldOver

\* ... that the provider stays and the two rows are in step;
RowsInStep(c, ch, w) ==
    /\ auth'[ch.provider] # NoRow
    /\ w.attempts \in 0..MaxAttempts
    /\ Aligned(ch, w)
    /\ c \notin TokenHolders /\ ch.status \in InFlightStatus => w.status = "paused"

\* ... that an in-flight challenge is the only one of its kind;
OnlyInFlight(c, ch) ==
    ch.status \in InFlightStatus =>
        \A d \in Ids : d # c /\ InFlight(d) /\ challenge[d].provider = ch.provider
                          => challenge[d].type # ch.type

\* ... and that every state which asks for a human is accounted for, either by
\* this row or by the row that accounted for it before.
Accounts(c, ch) ==
    \A p \in Providers :
        /\ auth[p] # NoRow => auth'[p] # NoRow
        /\ auth'[p] \in DOMAIN ChallengeTypeFor =>
            \/ /\ ch.provider = p
               /\ ch.type = ChallengeTypeFor[auth'[p]]
               /\ ch.status \in InFlightStatus \cup {"cancelled"}
            \/ /\ auth'[p] = auth[p]
               /\ ~Exists(c) \/ ch = challenge[c] \/ challenge[c].provider # p
                  \/ (/\ challenge[c].provider = ch.provider
                      /\ challenge[c].type = ch.type
                      /\ ch.status \in InFlightStatus \cup {"cancelled"})

\* The step most handlers take: one challenge and its run are rewritten together.
LEMMA OneRowInv ==
    ASSUME IInv, NEW c \in Ids, NEW ch, NEW w,
           Rows(c, ch, w), RowsInStep(c, ch, w), OnlyInFlight(c, ch), Accounts(c, ch)
    PROVE  IInv'
<1> USE DEF Rows
<1> USE DEF IInv
<1>1. /\ challenge'[c] = ch
      /\ workflow'[c] = w
      /\ Exists(c)'
      /\ InFlight(c)' <=> ch.status \in InFlightStatus
  BY NoRowIsNoRow DEF TypeOK, Exists, InFlight
<1>2. \A d \in Ids : d # c => /\ challenge'[d] = challenge[d]
                              /\ workflow'[d] = workflow[d]
                              /\ Exists(d)' <=> Exists(d)
                              /\ InFlight(d)' <=> InFlight(d)
  BY DEF TypeOK, Exists, InFlight
<1>3. TypeOK'
  BY DEF TypeOK
<1>4. Linked'
  <2> USE DEF RowsInStep, Accounts
  <2> SUFFICES ASSUME NEW d \in Ids
               PROVE  /\ challenge'[d] = NoRow <=> workflow'[d] = NoRow
                      /\ Exists(d)' => auth'[challenge'[d].provider] # NoRow
                      /\ d \in toldOver' => Exists(d)'
    BY DEF Linked, Exists
  <2>1. CASE d = c
    BY <1>1, <2>1, NoRowIsNoRow
  <2>2. CASE d # c
    <3>1. Exists(d) => challenge[d].provider \in Providers
      BY DEF TypeOK, Exists, ChallengeRow
    <3>. QED BY <1>2, <2>2, <3>1 DEF Linked
  <2>. QED BY <2>1, <2>2
<1>5. UniqueInFlight'
  BY <1>1, <1>2 DEF UniqueInFlight, OnlyInFlight
<1>6. InStep'
  <2> SUFFICES ASSUME NEW d \in Ids, Exists(d)'
               PROVE  Aligned(challenge'[d], workflow'[d])
    BY DEF InStep, Aligned
  <2>1. CASE d = c
    BY <1>1, <2>1 DEF RowsInStep
  <2>2. CASE d # c
    BY <1>2, <2>2 DEF InStep
  <2>. QED BY <2>1, <2>2
<1>7. AttemptBudget'
  BY <1>1, <1>2 DEF AttemptBudget, RowsInStep
<1>8. PausedWhileInFlight'
  BY <1>1, <1>2 DEF PausedWhileInFlight, RowsInStep
<1>9. ChallengeAccounted'
  <2> SUFFICES ASSUME NEW p \in Providers, auth'[p] \in DOMAIN ChallengeTypeFor
               PROVE  \E d \in Ids :
                          /\ Exists(d)'
                          /\ challenge'[d].provider = p
                          /\ challenge'[d].type = ChallengeTypeFor[auth'[p]]
                          /\ challenge'[d].status \in InFlightStatus \cup {"cancelled"}
    BY DEF ChallengeAccounted
  <2>1. CASE /\ ch.provider = p
             /\ ch.type = ChallengeTypeFor[auth'[p]]
             /\ ch.status \in InFlightStatus \cup {"cancelled"}
    BY <1>1, <2>1
  <2>2. CASE /\ auth'[p] = auth[p]
             /\ ~Exists(c) \/ ch = challenge[c] \/ challenge[c].provider # p
                \/ (/\ challenge[c].provider = ch.provider
                    /\ challenge[c].type = ch.type
                    /\ ch.status \in InFlightStatus \cup {"cancelled"})
    <3>1. PICK d \in Ids : /\ Exists(d)
                          /\ challenge[d].provider = p
                          /\ challenge[d].type = ChallengeTypeFor[auth[p]]
                          /\ challenge[d].status \in InFlightStatus \cup {"cancelled"}
      BY <2>2 DEF ChallengeAccounted
    <3>. QED BY <1>1, <1>2, <2>2, <3>1
  <2>. QED BY <2>1, <2>2 DEF Accounts
<1>. QED BY <1>3, <1>4, <1>5, <1>6, <1>7, <1>8, <1>9

\* What the invariant says of the rows of an existing id.
LEMMA RowFacts ==
    ASSUME IInv, NEW c \in Ids, Exists(c)
    PROVE  /\ challenge[c] \in ChallengeRow
           /\ workflow[c] \in WorkflowRow
           /\ challenge[c].provider \in Providers
           /\ auth[challenge[c].provider] # NoRow
           /\ workflow[c].attempts \in 0..MaxAttempts
<1>1. challenge[c] \in ChallengeRow
  BY DEF IInv, TypeOK, Exists
<1>2. workflow[c] \in WorkflowRow /\ workflow[c].attempts \in 0..MaxAttempts
  BY DEF IInv, TypeOK, Linked, AttemptBudget, Exists
<1>3. challenge[c].provider \in Providers
  BY <1>1 DEF ChallengeRow
<1>. QED BY <1>1, <1>2, <1>3 DEF IInv, Linked

\* What it says of an in-flight challenge's workflow.
LEMMA InFlightFacts ==
    ASSUME IInv, NEW c \in Ids, InFlight(c)
    PROVE  /\ Exists(c)
           /\ workflow[c].status \in {"paused", "running"}
           /\ c \notin TokenHolders => workflow[c].status = "paused"
<1>1. Exists(c)
  BY DEF InFlight
<1>2. workflow[c].status \in {"paused", "running"}
  BY <1>1 DEF IInv, InStep, Aligned, InFlight, InFlightStatus
<1>. QED BY <1>1, <1>2 DEF IInv, PausedWhileInFlight

\* Changing an in-flight challenge's status to another in-flight one, or
\* cancelling it, keeps it accounted for and unique.
LEMMA StatusChange ==
    ASSUME IInv, NEW c \in Ids, InFlight(c), auth' = auth,
           NEW st \in InFlightStatus \cup {"cancelled"}
    PROVE  LET ch == [challenge[c] EXCEPT !.status = st] IN
           /\ ch \in ChallengeRow
           /\ ch.status = st
           /\ ch.provider = challenge[c].provider
           /\ OnlyInFlight(c, ch)
           /\ Accounts(c, ch)
<1> DEFINE ch == [challenge[c] EXCEPT !.status = st]
<1>1. ch \in ChallengeRow /\ ch.status = st
      /\ ch.provider = challenge[c].provider /\ ch.type = challenge[c].type
  BY RowFacts DEF ChallengeRow, ClosedStatus, InFlight
<1> HIDE DEF ch
<1>2. OnlyInFlight(c, ch)
  BY <1>1 DEF OnlyInFlight, IInv, UniqueInFlight
<1>3. Accounts(c, ch)
  BY <1>1 DEF Accounts
<1>. QED BY <1>1, <1>2, <1>3 DEF ch

\* Acknowledging leaves the run paused.
LEMMA AcknowledgeInv ==
    ASSUME IInv, NEW c \in Ids, Acknowledge(c)
    PROVE  IInv'
<1> DEFINE ch == [challenge[c] EXCEPT !.status = "acknowledged"]
<1>1. Exists(c) /\ InFlight(c)
  BY DEF Acknowledge, InFlight
<1>2. /\ ch \in ChallengeRow /\ ch.status = "acknowledged"
      /\ ch.provider = challenge[c].provider
      /\ OnlyInFlight(c, ch) /\ Accounts(c, ch)
  BY <1>1, StatusChange DEF Acknowledge, InFlightStatus
<1>3. Rows(c, ch, workflow[c])
  BY <1>1, <1>2, RowFacts DEF Acknowledge, Rows, IInv, TypeOK
<1>4. RowsInStep(c, ch, workflow[c])
  BY <1>1, <1>2, RowFacts, InFlightFacts DEF Acknowledge, RowsInStep, Aligned, InFlightStatus
<1> HIDE DEF ch
<1>. QED BY <1>2, <1>3, <1>4, OneRowInv

\* Cancelling closes the challenge and its run.
LEMMA CancelInv ==
    ASSUME IInv, NEW c \in Ids, Cancel(c)
    PROVE  IInv'
<1> DEFINE ch == [challenge[c] EXCEPT !.status = "cancelled"]
           w == [workflow[c] EXCEPT !.status = "cancelled"]
<1>1. Exists(c) /\ InFlight(c)
  BY DEF Cancel, InFlight
<1>2. /\ ch \in ChallengeRow /\ ch.status = "cancelled"
      /\ ch.provider = challenge[c].provider
      /\ OnlyInFlight(c, ch) /\ Accounts(c, ch)
  BY <1>1, StatusChange DEF Cancel
<1>3. w \in WorkflowRow /\ w.status = "cancelled" /\ w.attempts = workflow[c].attempts
  BY <1>1, RowFacts DEF WorkflowRow, WorkflowStatus, WorkflowTerminal
<1>4. Rows(c, ch, w)
  BY <1>2, <1>3 DEF Cancel, Rows, IInv, TypeOK
<1>5. RowsInStep(c, ch, w)
  BY <1>1, <1>2, <1>3, RowFacts DEF Cancel, RowsInStep, Aligned, InFlightStatus
<1> HIDE DEF ch, w
<1>. QED BY <1>2, <1>4, <1>5, OneRowInv

\* Completing resolves the challenge and lets its run go on, or finish.
LEMMA CompleteInv ==
    ASSUME IInv, NEW c \in Ids, Complete(c)
    PROVE  IInv'
<1> DEFINE ch == [challenge[c] EXCEPT !.status = "resolved"]
           w == Finish(workflow[c])
<1>1. Exists(c) /\ InFlight(c) /\ FinishOK(workflow[c])
  BY DEF Complete, InFlight
<1>2. /\ ch \in ChallengeRow /\ ch.status = "resolved"
      /\ ch.provider = challenge[c].provider
  BY <1>1, RowFacts DEF ChallengeRow, ClosedStatus
<1>3. /\ w \in WorkflowRow /\ w.status \in {"running", "completed"}
      /\ w.attempts \in 0..MaxAttempts
  BY <1>1, RowFacts, FinishRow
<1>4. auth' = [auth EXCEPT ![challenge[c].provider] = "authenticated"]
  BY DEF Complete
<1>5. auth' \in [Providers -> AuthStates \cup {NoRow}]
  BY <1>4 DEF IInv, TypeOK, AuthStates
<1>6. Rows(c, ch, w)
  BY <1>2, <1>3, <1>5 DEF Complete, Rows, IInv, TypeOK
<1>7. RowsInStep(c, ch, w)
  BY <1>1, <1>2, <1>3, <1>4, RowFacts, ConstantsOK
  DEF RowsInStep, Aligned, InFlightStatus, IInv, TypeOK, AuthStates
<1>8. OnlyInFlight(c, ch)
  BY <1>2 DEF OnlyInFlight, InFlightStatus
<1>9. Accounts(c, ch)
  BY <1>1, <1>4, RowFacts, SettledAsksNothing, ConstantsOK
  DEF Accounts, IInv, TypeOK, AuthStates
<1> HIDE DEF ch, w
<1>. QED BY <1>6, <1>7, <1>8, <1>9, OneRowInv

\* Resuming a run leaves its challenge as it is.
LEMMA ResumeWorkflowInv ==
    ASSUME IInv, NEW c \in Ids, ResumeWorkflow(c)
    PROVE  IInv'
<1> DEFINE w == Resume(workflow[c])
<1>1. Exists(c) /\ c \in TokenHolders /\ ResumeOK(workflow[c]) /\ w = Finish(workflow[c])
  BY DEF ResumeWorkflow, ResumeOK, Finish
<1>2. w \in WorkflowRow /\ w.status = "running" /\ w.attempts \in 0..MaxAttempts
  <2>1. FinishOK(workflow[c]) /\ workflow[c].status = "paused"
    BY <1>1 DEF FinishOK, ResumeOK
  <2>2. w.status = "running"
    BY <1>1, RowFacts DEF Resume, WorkflowRow
  <2>. QED BY <1>1, <2>1, <2>2, RowFacts, FinishRow
<1>3. Rows(c, challenge[c], w)
  BY <1>1, <1>2, RowFacts DEF ResumeWorkflow, Rows, IInv, TypeOK
<1>4. challenge[c].status \in InFlightStatus
  BY <1>1 DEF ResumeOK, IInv, InStep, Aligned
<1>5. RowsInStep(c, challenge[c], w)
  BY <1>1, <1>2, <1>4, RowFacts DEF ResumeWorkflow, RowsInStep, Aligned
<1>6. OnlyInFlight(c, challenge[c])
  BY <1>1 DEF OnlyInFlight, IInv, UniqueInFlight, InFlight
<1>7. Accounts(c, challenge[c])
  BY <1>4 DEF ResumeWorkflow, Accounts
<1> HIDE DEF w
<1>. QED BY <1>3, <1>5, <1>6, <1>7, OneRowInv

\* A run whose deadline passes.
LEMMA ExpireInv ==
    ASSUME IInv, NEW c \in Ids, Expire(c)
    PROVE  IInv'
<1> DEFINE w == [workflow[c] EXCEPT !.expired = TRUE]
<1>1. Exists(c)
  BY DEF Expire
<1>2. /\ w \in WorkflowRow /\ w.status = workflow[c].status
      /\ w.attempts = workflow[c].attempts
  BY <1>1, RowFacts DEF WorkflowRow
<1>3. Rows(c, challenge[c], w)
  BY <1>1, <1>2, RowFacts DEF Expire, Rows, IInv, TypeOK
<1>4. RowsInStep(c, challenge[c], w)
  BY <1>1, <1>2, RowFacts
  DEF Expire, RowsInStep, Aligned, IInv, InStep, PausedWhileInFlight, InFlight
<1>5. OnlyInFlight(c, challenge[c])
  BY <1>1 DEF OnlyInFlight, IInv, UniqueInFlight, InFlight
<1>6. Accounts(c, challenge[c])
  BY DEF Expire, Accounts
<1> HIDE DEF w
<1>. QED BY <1>3, <1>4, <1>5, <1>6, OneRowInv

\* A refused resume writes nothing; it only tells the client.
LEMMA ResumeRefusedInv ==
    ASSUME IInv, NEW c \in Ids, ResumeRefused(c)
    PROVE  IInv'
<1> USE DEF IInv, ResumeRefused
<1>1. TypeOK' /\ Linked'
  BY DEF TypeOK, Linked, Exists
<1>2. UniqueInFlight' /\ InStep' /\ AttemptBudget' /\ PausedWhileInFlight'
  BY DEF UniqueInFlight, InStep, AttemptBudget, PausedWhileInFlight, InFlight, Exists
<1>3. ChallengeAccounted'
  BY DEF ChallengeAccounted, Exists
<1>. QED BY <1>1, <1>2, <1>3

\* ensure_open's reuse: the in-flight challenge of the provider and type.
LEMMA TargetFacts ==
    ASSUME IInv, NEW p \in Providers, NEW t \in ChallengeTypes, NEW c \in Ids,
           c \in IF InFlightFor(p, t) # {} THEN InFlightFor(p, t) ELSE Free
    PROVE  /\ Exists(c) => /\ InFlight(c)
                           /\ challenge[c].provider = p
                           /\ challenge[c].type = t
           /\ \A d \in Ids : d # c /\ InFlight(d) /\ challenge[d].provider = p
                             => challenge[d].type # t
  BY DEF IInv, UniqueInFlight, InFlightFor, InFlightOf, Free

\* A hand-off reuses the challenge in flight or opens one and pauses a new run.
LEMMA HandOffInv ==
    ASSUME IInv, NEW p \in Providers, NEW t \in HandOffTypes, NEW c \in Ids,
           HandOffTo(p, t, c)
    PROVE  IInv'
<1>0. t \in ChallengeTypes
  BY ConstantsOK
<1>1. /\ c \in IF InFlightFor(p, t) # {} THEN InFlightFor(p, t) ELSE Free
      /\ auth' = [auth EXCEPT ![p] = IF @ = NoRow THEN "not_configured" ELSE @]
      /\ toldOver' = toldOver
  BY DEF HandOffTo, EnsureSite
<1> DEFINE old == IF Exists(c) THEN challenge[c] ELSE NewChallenge(p, t)
           ch == [old EXCEPT !.status = "human_action_required"]
           w == IF Exists(c) THEN workflow[c] ELSE NewWorkflow
<1>3. /\ ch \in ChallengeRow /\ ch.status = "human_action_required"
      /\ ch.provider = p /\ ch.type = t
  <2>1. old \in ChallengeRow /\ old.provider = p /\ old.type = t
    BY <1>0, <1>1, RowFacts, TargetFacts DEF NewChallenge, ChallengeRow, InFlightStatus
  <2> HIDE DEF old
  <2>. QED BY <2>1 DEF ChallengeRow, InFlightStatus
<1>4. /\ w \in WorkflowRow /\ w.attempts \in 0..MaxAttempts
      /\ w.status \in {"paused", "running"}
      /\ c \notin TokenHolders => w.status = "paused"
  <2>1. CASE Exists(c)
    BY <1>0, <1>1, <2>1, RowFacts, InFlightFacts, TargetFacts
  <2>2. CASE ~Exists(c)
    BY <2>2, ConstantsOK DEF NewWorkflow, WorkflowRow, WorkflowStatus
  <2>. QED BY <2>1, <2>2
<1>5. /\ auth' \in [Providers -> AuthStates \cup {NoRow}]
      /\ auth'[p] # NoRow
      /\ \A q \in Providers :
            \/ auth'[q] = auth[q]
            \/ auth[q] = NoRow /\ auth'[q] = "not_configured"
  BY <1>1, ConstantsOK DEF IInv, TypeOK, AuthStates
<1>6. Rows(c, ch, w)
  BY <1>1, <1>3, <1>4, <1>5 DEF HandOffTo, Rows
<1>7. RowsInStep(c, ch, w)
  BY <1>3, <1>4, <1>5 DEF RowsInStep, Aligned, InFlightStatus
<1>8. OnlyInFlight(c, ch)
  BY <1>0, <1>1, <1>3, TargetFacts DEF OnlyInFlight
<1> HIDE DEF ch, w
<1>9. Accounts(c, ch)
  <2>1. Exists(c) => challenge[c].provider = ch.provider /\ challenge[c].type = ch.type
    BY <1>0, <1>1, <1>3, TargetFacts
  <2>. QED
    BY <1>3, <1>5, <2>1, SettledAsksNothing, ConstantsOK
    DEF Accounts, InFlightStatus, AuthStates
<1>. QED BY <1>6, <1>7, <1>8, <1>9, OneRowInv

\* A provider reporting that it asks for a challenge.
LEMMA ReportAsksInv ==
    ASSUME IInv, NEW p \in Providers, NEW s \in Reported, ReportAsks(p, s)
    PROVE  IInv'
<1> DEFINE t == ChallengeTypeFor[s]
<1>0. s \in DOMAIN ChallengeTypeFor /\ s \in AuthStates /\ t \in ChallengeTypes
  BY ChallengeTypeForType DEF ReportAsks
<1>1. PICK c \in IF InFlightFor(p, t) # {} THEN InFlightFor(p, t) ELSE Free :
        LET ch == IF Exists(c) THEN challenge[c] ELSE NewChallenge(p, t)
            w == IF Exists(c) THEN workflow[c] ELSE NewWorkflow
            escalate == /\ auth[p] \in HumanEscalation
                        /\ ch.status # "human_action_required"
        IN /\ challenge' = [challenge EXCEPT ![c] =
                IF escalate THEN [ch EXCEPT !.status = "human_action_required"] ELSE ch]
           /\ workflow' = [workflow EXCEPT ![c] = IF escalate THEN Pause(w) ELSE w]
  BY DEF ReportAsks
<1>2. c \in Ids
  BY DEF InFlightFor, InFlightOf, Free
<1> DEFINE old == IF Exists(c) THEN challenge[c] ELSE NewChallenge(p, t)
           oldW == IF Exists(c) THEN workflow[c] ELSE NewWorkflow
           escalate == /\ auth[p] \in HumanEscalation
                       /\ old.status # "human_action_required"
           ch == IF escalate THEN [old EXCEPT !.status = "human_action_required"] ELSE old
           w == IF escalate THEN Pause(oldW) ELSE oldW
<1>3. ch \in ChallengeRow /\ ch.status \in InFlightStatus /\ ch.provider = p /\ ch.type = t
  <2>1. /\ old \in ChallengeRow /\ old.provider = p /\ old.type = t
        /\ old.status \in InFlightStatus
    <3>1. CASE Exists(c)
      BY <1>0, <1>1, <1>2, <3>1, RowFacts, TargetFacts DEF InFlight
    <3>2. CASE ~Exists(c)
      BY <1>0, <3>2 DEF NewChallenge, ChallengeRow, InFlightStatus
    <3>. QED BY <3>1, <3>2
  <2> HIDE DEF old
  <2>. QED BY <2>1 DEF ChallengeRow, InFlightStatus
<1>4. /\ w \in WorkflowRow /\ w.attempts \in 0..MaxAttempts
      /\ w.status \in {"paused", "running"}
      /\ c \notin TokenHolders => w.status = "paused"
  <2>1. /\ oldW \in WorkflowRow /\ oldW.attempts \in 0..MaxAttempts
        /\ oldW.status \in {"paused", "running"}
        /\ c \notin TokenHolders => oldW.status = "paused"
    <3>1. CASE Exists(c)
      BY <1>0, <1>1, <1>2, <3>1, RowFacts, InFlightFacts, TargetFacts
    <3>2. CASE ~Exists(c)
      BY <3>2, ConstantsOK DEF NewWorkflow, WorkflowRow, WorkflowStatus
    <3>. QED BY <3>1, <3>2
  <2> HIDE DEF oldW, escalate
  <2>2. /\ Pause(oldW) \in WorkflowRow /\ Pause(oldW).status = "paused"
        /\ Pause(oldW).attempts = oldW.attempts
    BY <2>1 DEF Pause, WorkflowRow, WorkflowStatus, WorkflowTerminal
  <2>. QED BY <2>1, <2>2
<1>5. auth' = [auth EXCEPT ![p] = s] /\ toldOver' = toldOver
  BY DEF ReportAsks
<1>6. Rows(c, ch, w)
  BY <1>0, <1>1, <1>3, <1>4, <1>5 DEF Rows, IInv, TypeOK
<1>7. RowsInStep(c, ch, w)
  BY <1>0, <1>3, <1>4, <1>5, ConstantsOK DEF RowsInStep, Aligned, IInv, TypeOK
<1>8. OnlyInFlight(c, ch)
  BY <1>0, <1>1, <1>2, <1>3, TargetFacts DEF OnlyInFlight
<1> HIDE DEF ch, w
<1>9. Accounts(c, ch)
  <2>1. Exists(c) => challenge[c].provider = ch.provider /\ challenge[c].type = ch.type
    BY <1>0, <1>1, <1>2, <1>3, TargetFacts
  <2>. QED BY <1>0, <1>3, <1>5, <2>1, ConstantsOK DEF Accounts, IInv, TypeOK
<1>. QED BY <1>2, <1>6, <1>7, <1>8, <1>9, OneRowInv

\* A report that neither opens nor closes a challenge.
LEMMA ReportOtherInv ==
    ASSUME IInv, NEW p \in Providers, NEW s \in Reported, ReportOther(p, s)
    PROVE  IInv'
<1> USE DEF IInv
<1>1. /\ auth' = [auth EXCEPT ![p] = s] /\ s \in {"not_configured", "error"}
      /\ UNCHANGED <<challenge, workflow, toldOver>>
  BY DEF ReportOther, OtherOK
<1>2. TypeOK'
  BY <1>1 DEF TypeOK, AuthStates
<1>3. Linked'
  BY <1>1, ConstantsOK DEF TypeOK, Linked, Exists, AuthStates, ChallengeRow
<1>4. UniqueInFlight' /\ InStep' /\ AttemptBudget' /\ PausedWhileInFlight'
  BY <1>1 DEF UniqueInFlight, InStep, AttemptBudget, PausedWhileInFlight, InFlight, Exists
<1>5. ChallengeAccounted'
  BY <1>1, SettledAsksNothing DEF TypeOK, ChallengeAccounted, Exists
<1>. QED BY <1>2, <1>3, <1>4, <1>5

\* A provider reporting success closes what it has in flight.
LEMMA ReportSettledInv ==
    ASSUME IInv, NEW p \in Providers, NEW s \in Reported, ReportSettled(p, s)
    PROVE  IInv'
<1> DEFINE closes == InFlightOf(p)
<1> USE DEF IInv
<1>1. /\ auth' = [auth EXCEPT ![p] = s] /\ s \in {"authenticated", "not_required"}
      /\ challenge' = [c \in Ids |-> IF c \in closes
                                     THEN [challenge[c] EXCEPT !.status = "resolved"]
                                     ELSE challenge[c]]
      /\ workflow' = [c \in Ids |-> IF c \in closes THEN Finish(workflow[c])
                                    ELSE workflow[c]]
      /\ toldOver' = toldOver
      /\ \A c \in closes : FinishOK(workflow[c])
      /\ auth[p] # NoRow
  BY DEF ReportSettled, SettlesOK, ApplyOK
<1>2. \A c \in closes : /\ c \in Ids /\ Exists(c) /\ InFlight(c)
                        /\ challenge[c].provider = p
  BY DEF InFlightOf, InFlight
<1> HIDE DEF closes
<1>3. \A c \in closes : /\ challenge'[c] \in ChallengeRow
                        /\ challenge'[c].provider = p
                        /\ challenge'[c].status = "resolved"
  <2> TAKE c \in closes
  <2>1. challenge[c] \in ChallengeRow
    BY <1>2, RowFacts
  <2>2. challenge'[c] = [challenge[c] EXCEPT !.status = "resolved"]
    BY <1>1, <1>2
  <2>. QED BY <1>2, <2>1, <2>2 DEF ChallengeRow, ClosedStatus
<1>4. \A c \in closes : /\ workflow'[c] \in WorkflowRow
                        /\ workflow'[c].status \in {"running", "completed"}
                        /\ workflow'[c].attempts \in 0..MaxAttempts
  BY <1>1, <1>2, RowFacts, FinishRow
<1>5. \A c \in Ids \ closes : challenge'[c] = challenge[c] /\ workflow'[c] = workflow[c]
  BY <1>1
<1>6. \A c \in closes : ~InFlight(c)' /\ Exists(c)'
  BY <1>3, NoRowIsNoRow DEF InFlight, Exists, InFlightStatus
<1>7. TypeOK'
  BY <1>1, <1>2, <1>3, <1>4 DEF TypeOK, AuthStates
<1>8. Linked'
  <2>1. \A q \in Providers : auth[q] # NoRow => auth'[q] # NoRow
    BY <1>1, ConstantsOK DEF TypeOK, AuthStates
  <2> SUFFICES ASSUME NEW c \in Ids
               PROVE  /\ challenge'[c] = NoRow <=> workflow'[c] = NoRow
                      /\ Exists(c)' => auth'[challenge'[c].provider] # NoRow
                      /\ c \in toldOver' => Exists(c)'
    BY DEF Linked, Exists
  <2>2. CASE c \in closes
    BY <1>1, <1>3, <1>4, <1>6, <2>1, <2>2, NoRowIsNoRow
  <2>3. CASE c \notin closes
    <3>1. Exists(c) => challenge[c].provider \in Providers
      BY RowFacts
    <3>. QED BY <1>1, <1>5, <2>1, <2>3, <3>1 DEF Linked, Exists
  <2>. QED BY <2>2, <2>3
<1>9. UniqueInFlight' /\ PausedWhileInFlight'
  BY <1>5, <1>6 DEF UniqueInFlight, PausedWhileInFlight, InFlight, Exists
<1>10. InStep' /\ AttemptBudget'
  BY <1>3, <1>4, <1>5 DEF InStep, Aligned, AttemptBudget, Exists
<1>11. ChallengeAccounted'
  BY <1>1, <1>2, <1>5, SettledAsksNothing DEF TypeOK, ChallengeAccounted, Exists
<1>. QED BY <1>7, <1>8, <1>9, <1>10, <1>11

\* The invariant is inductive: one lemma per handler.
LEMMA NextInv == IInv /\ [Next]_vars => IInv'
<1> SUFFICES ASSUME IInv, [Next]_vars PROVE IInv'
  OBVIOUS
<1>1. CASE \E p \in Providers :
              \/ \E s \in {"not_required", "not_configured"} : CreateProvider(p, s)
              \/ DeleteProvider(p)
  BY <1>1, CreateProviderInv, DeleteProviderInv
<1>2. CASE \E p \in Providers : \E s \in Reported :
              ReportSettled(p, s) \/ ReportAsks(p, s) \/ ReportOther(p, s)
  BY <1>2, ReportSettledInv, ReportAsksInv, ReportOtherInv
<1>3. CASE \E p \in Providers : HandOff(p)
  BY <1>3, HandOffInv DEF HandOff
<1>4. CASE \E c \in Ids : Acknowledge(c) \/ Complete(c) \/ Cancel(c)
  BY <1>4, AcknowledgeInv, CompleteInv, CancelInv
<1>5. CASE \E c \in Ids : ResumeWorkflow(c) \/ ResumeRefused(c) \/ Expire(c)
  BY <1>5, ResumeWorkflowInv, ResumeRefusedInv, ExpireInv
<1>6. CASE UNCHANGED vars
  BY <1>6 DEF vars, IInv, TypeOK, Linked, UniqueInFlight, InStep, AttemptBudget,
     ChallengeAccounted, PausedWhileInFlight, InFlight, Exists
<1>. QED BY <1>1, <1>2, <1>3, <1>4, <1>5, <1>6 DEF Next, ProviderRequest, ChallengeRequest

\* The invariant holds in every reachable state.
LEMMA Invariance == Spec => []IInv
  BY InitInv, NextInv, PTL DEF Spec

-----------------------------------------------------------------------------
\* Every row keeps to its columns' enumerations.
THEOREM TypeCorrect == Spec => []TypeOK
<1>1. IInv => TypeOK
  BY DEF IInv
<1>. QED BY <1>1, Invariance, PTL

\* However a challenge was closed, its workflow was closed or resumed with it,
\* and while it is in flight the workflow is alive, so cancel is never refused.
THEOREM ChallengeWorkflowInStep == Spec => []InStep
<1>1. IInv => InStep
  BY DEF IInv
<1>. QED BY <1>1, Invariance, PTL

\* Detection is idempotent for any number of reports, hand-offs and escalations.
THEOREM OneInFlightPerType == Spec => []UniqueInFlight
<1>1. IInv => UniqueInFlight
  BY DEF IInv
<1>. QED BY <1>1, Invariance, PTL

\* No sequence of requests exceeds a run's attempt budget.
THEOREM ResumesAreCapped == Spec => []AttemptBudget
<1>1. IInv => AttemptBudget
  BY DEF IInv
<1>. QED BY <1>1, Invariance, PTL

\* A provider that needs a human has a challenge in flight or a cancelled one.
THEOREM EscalationAccounted == Spec => []ChallengeAccounted
<1>1. IInv => ChallengeAccounted
  BY DEF IInv
<1>. QED BY <1>1, Invariance, PTL

\* Without a disclosed token nothing resumes before its challenge is closed.
THEOREM NoResumeBeforeResolution == Spec => []PausedWhileInFlight
<1>1. IInv => PausedWhileInFlight
  BY DEF IInv
<1>. QED BY <1>1, Invariance, PTL

\* A closed challenge and its workflow are final until they are deleted.
THEOREM ClosedChallengesStayClosed == Spec => ClosedIsFinal
<1>1. IInv /\ [Next]_vars => [\A c \in Ids : ClosedStays(c)]_vars
  <2> SUFFICES ASSUME IInv, Next, NEW c \in Ids, Exists(c), ~InFlight(c)
               PROVE  \/ challenge'[c] = NoRow
                      \/ /\ challenge'[c] = challenge[c]
                         /\ workflow'[c].status = workflow[c].status
                         /\ workflow'[c].attempts = workflow[c].attempts
    BY DEF ClosedStays
  <2> USE DEF IInv, TypeOK
  <2>1. CASE \E p \in Providers, s \in {"not_required", "not_configured"} :
                CreateProvider(p, s)
    BY <2>1 DEF CreateProvider
  <2>2. CASE \E p \in Providers : DeleteProvider(p)
    BY <2>2 DEF DeleteProvider
  <2>3. CASE \E p \in Providers, s \in Reported : ReportSettled(p, s)
    BY <2>3 DEF ReportSettled, InFlightOf
  <2>4. CASE \E p \in Providers, s \in Reported : ReportAsks(p, s)
    BY <2>4 DEF ReportAsks, InFlightFor, InFlightOf, Free
  <2>5. CASE \E p \in Providers, s \in Reported : ReportOther(p, s)
    BY <2>5 DEF ReportOther
  <2>6. CASE \E p \in Providers : HandOff(p)
    BY <2>6 DEF HandOff, HandOffTo, InFlightFor, InFlightOf, Free
  <2>7. CASE \E d \in Ids : Acknowledge(d) \/ Complete(d) \/ Cancel(d)
    <3> PICK d \in Ids : Acknowledge(d) \/ Complete(d) \/ Cancel(d)
      BY <2>7
    <3>1. d # c
      BY DEF Acknowledge, Complete, Cancel
    <3>. QED BY <3>1 DEF Acknowledge, Complete, Cancel
  <2>8. CASE \E d \in Ids : ResumeWorkflow(d)
    <3> PICK d \in Ids : ResumeWorkflow(d)
      BY <2>8
    <3>1. d # c
      BY DEF ResumeWorkflow, ResumeOK, InStep, Aligned, InFlight
    <3>. QED BY <3>1 DEF ResumeWorkflow
  <2>9. CASE \E d \in Ids : ResumeRefused(d)
    BY <2>9 DEF ResumeRefused
  <2>10. CASE \E d \in Ids : Expire(d)
    <3> PICK d \in Ids : Expire(d)
      BY <2>10
    <3>1. workflow[c] \in WorkflowRow
      BY RowFacts
    <3>. QED BY <3>1 DEF Expire, WorkflowRow
  <2>. QED
    BY <2>1, <2>2, <2>3, <2>4, <2>5, <2>6, <2>7, <2>8, <2>9, <2>10
    DEF Next, ProviderRequest, ChallengeRequest
<1>. QED BY <1>1, Invariance, PTL DEF Spec, ClosedIsFinal

-----------------------------------------------------------------------------
(* ApplicationAutomation.                                                   *)

\* get_or_create_for_site is a CreateProvider of HumanInLoop or changes nothing.
LEMMA EnsureSiteStep ==
    ASSUME TypeOK, NEW p \in Providers, EnsureSite(p),
           UNCHANGED <<challenge, workflow, toldOver>>
    PROVE  [Next]_vars
<1>1. CASE auth[p] = NoRow
  <2>1. CreateProvider(p, "not_configured")
    BY <1>1 DEF EnsureSite, CreateProvider, TypeOK
  <2>. QED BY <2>1 DEF Next, ProviderRequest
<1>2. CASE auth[p] # NoRow
  BY <1>2 DEF EnsureSite, TypeOK, vars
<1>. QED BY <1>1, <1>2

\* Whatever the adapter answers, the challenge tables make a step of HumanInLoop.
LEMMA AttemptStep ==
    ASSUME TypeOK, NEW r \in Runs, NEW row, row.app \in Apps, Attempt(r, row)
    PROVE  [Next]_vars
<1>0. SiteOf[row.app] \in Providers
  BY AutomationConstantsOK
<1>1. CASE Submitted(r, row)
  BY <1>0, <1>1, EnsureSiteStep DEF Submitted
<1>2. CASE Failed(r, row)
  BY <1>0, <1>2, EnsureSiteStep DEF Failed
<1>3. CASE HandedOff(r, row)
  BY <1>0, <1>3 DEF HandedOff, HandOff, Next
<1>. QED BY <1>1, <1>2, <1>3 DEF Attempt

\* A step of the automation is a step of the workflow runs' module, or leaves its rows
\* alone: what is proved of HumanInLoop carries over.
LEMMA AutoStep ==
    ASSUME TypeOK, AutoTypeOK, [AutoNext]_allVars
    PROVE  [Next]_vars
<1>1. CASE AuthRequest
  BY <1>1 DEF AuthRequest, Next
<1>2. CASE Reconfigure \/ \E a \in Apps : ApplicationRequest(a)
  BY <1>2 DEF Reconfigure, ApplicationRequest, UpdateStatus, RequestApproval, Decide,
              ToggleSource
<1>3. CASE \E a \in Apps, r \in Runs : Execute(a, r)
  BY <1>3, AttemptStep DEF Execute, NewRun
<1>4. CASE \E r \in Runs : Retry(r)
  <2> PICK r \in Runs : Retry(r)
    BY <1>4
  <2>1. runs[r] \in RunRow
    BY DEF Retry, RetryOK, AutoTypeOK
  <2>a. PICK row : row = [runs[r] EXCEPT !.status = "running", !.retryAt = FALSE]
    OBVIOUS
  <2>2. row.app \in Apps
    BY <2>1, <2>a DEF RunRow
  <2>3. Attempt(r, row)
    BY <2>a DEF Retry
  <2>. QED BY <2>2, <2>3, AttemptStep
<1>5. CASE UNCHANGED allVars
  BY <1>5 DEF allVars
<1>. QED BY <1>1, <1>2, <1>3, <1>4, <1>5 DEF AutoNext

-----------------------------------------------------------------------------
\* A provider that runs refer to is still there.
SitesKept == \A r \in Runs : runs[r] # NoRow => auth[SiteOf[runs[r].app]] # NoRow

AutoIInv ==
    /\ IInv
    /\ AutoTypeOK
    /\ OneLiveRun
    /\ RetryBudget
    /\ PausedRunHasChallenge
    /\ SitesKept

\* The empty tables satisfy the invariant.
LEMMA AutoInitInv == AutoInit => AutoIInv
<1> SUFFICES ASSUME AutoInit PROVE AutoIInv
  OBVIOUS
<1>1. IInv
  BY InitInv DEF AutoInit
<1>2. AutoTypeOK
  BY DEF AutoInit, AutoTypeOK, Approvals, ApplicationStatus
<1>3. OneLiveRun /\ RetryBudget /\ PausedRunHasChallenge /\ SitesKept
  BY DEF AutoInit, OneLiveRun, RetryBudget, PausedRunHasChallenge, SitesKept, Live, Active,
         RetryPending
<1>. QED BY <1>1, <1>2, <1>3 DEF AutoIInv

\* A challenge goes only with its provider.
LEMMA ChallengeStays ==
    ASSUME IInv, [Next]_vars, NEW c \in Ids, Exists(c),
           auth'[challenge[c].provider] # NoRow
    PROVE  Exists(c)' /\ challenge'[c].provider = challenge[c].provider
<1> USE DEF Exists
<1>0. /\ challenge[c] \in ChallengeRow
      /\ challenge \in [Ids -> ChallengeRow \cup {NoRow}]
      /\ auth \in [Providers -> AuthStates \cup {NoRow}]
      /\ challenge' \in [Ids -> ChallengeRow \cup {NoRow}]
      /\ NoRow \notin ChallengeRow
  BY RowFacts, NextInv, NoRowIsNoRow DEF IInv, TypeOK
<1>a. \A st \in InFlightStatus \cup ClosedStatus :
        /\ [challenge[c] EXCEPT !.status = st] # NoRow
        /\ [challenge[c] EXCEPT !.status = st].provider = challenge[c].provider
  BY <1>0 DEF ChallengeRow
<1>b. \A st \in InFlightStatus \cup ClosedStatus, d \in Ids :
        challenge' = [challenge EXCEPT ![d] = [challenge[d] EXCEPT !.status = st]]
          => challenge'[c] # NoRow /\ challenge'[c].provider = challenge[c].provider
  BY <1>0, <1>a
<1>1. CASE \E p \in Providers : \E s \in {"not_required", "not_configured"} :
              CreateProvider(p, s)
  BY <1>1 DEF CreateProvider
<1>2. CASE \E p \in Providers : DeleteProvider(p)
  BY <1>0, <1>2 DEF DeleteProvider, ChallengeRow
<1>3. CASE \E p \in Providers, s \in Reported : ReportSettled(p, s)
  <2>1. challenge'[c] = challenge[c] \/ challenge'[c] = [challenge[c] EXCEPT !.status = "resolved"]
    BY <1>3 DEF ReportSettled
  <2>. QED BY <1>a, <2>1 DEF ClosedStatus
<1>4. CASE \E p \in Providers, s \in Reported : ReportAsks(p, s)
  <2>1. \/ challenge'[c] = challenge[c]
        \/ challenge'[c] = [challenge[c] EXCEPT !.status = "human_action_required"]
    BY <1>0, <1>4 DEF ReportAsks
  <2>. QED BY <1>a, <2>1 DEF InFlightStatus
<1>5. CASE \E p \in Providers, s \in Reported : ReportOther(p, s)
  BY <1>5 DEF ReportOther
<1>6. CASE \E p \in Providers : HandOff(p)
  <2>1. \/ challenge'[c] = challenge[c]
        \/ challenge'[c] = [challenge[c] EXCEPT !.status = "human_action_required"]
    BY <1>0, <1>6 DEF HandOff, HandOffTo
  <2>. QED BY <1>a, <2>1 DEF InFlightStatus
<1>7. CASE \E d \in Ids : Acknowledge(d) \/ Complete(d) \/ Cancel(d)
  <2> PICK d \in Ids : Acknowledge(d) \/ Complete(d) \/ Cancel(d)
    BY <1>7
  <2>1. CASE Acknowledge(d)
    BY <1>b, <2>1 DEF Acknowledge, InFlightStatus
  <2>2. CASE Complete(d)
    BY <1>b, <2>2 DEF Complete, ClosedStatus
  <2>3. CASE Cancel(d)
    BY <1>b, <2>3 DEF Cancel, ClosedStatus
  <2>. QED BY <2>1, <2>2, <2>3
<1>8. CASE \E d \in Ids : ResumeWorkflow(d) \/ ResumeRefused(d) \/ Expire(d)
  BY <1>8 DEF ResumeWorkflow, ResumeRefused, Expire
<1>9. CASE UNCHANGED vars
  BY <1>9 DEF vars
<1>. QED
  BY <1>1, <1>2, <1>3, <1>4, <1>5, <1>6, <1>7, <1>8, <1>9
  DEF Next, ProviderRequest, ChallengeRequest

\* A provider's request touches its own state only; no other request removes one.
LEMMA ProvidersStay ==
    ASSUME IInv, NEW q \in Providers, auth[q] # NoRow
    PROVE  /\ \A p \in Providers \ {q} : ProviderRequest(p) => auth'[q] # NoRow
           /\ \A c \in Ids : ChallengeRequest(c) => auth'[q] # NoRow
           /\ \A p \in Providers : EnsureSite(p) => auth'[q] # NoRow
<1>0. auth \in [Providers -> AuthStates \cup {NoRow}] /\ NoRow \notin AuthStates
  BY ConstantsOK DEF IInv, TypeOK
<1>1. \A p \in Providers \ {q} : ProviderRequest(p) => auth'[q] # NoRow
  BY <1>0 DEF ProviderRequest, CreateProvider, DeleteProvider, ReportSettled, ReportAsks,
              ReportOther
<1>2. \A c \in Ids : ChallengeRequest(c) => auth'[q] # NoRow
  BY <1>0 DEF ChallengeRequest, Acknowledge, Complete, Cancel, ResumeWorkflow,
              ResumeRefused, Expire, AuthStates
<1>3. \A p \in Providers : EnsureSite(p) => auth'[q] # NoRow
  BY <1>0 DEF EnsureSite, AuthStates
<1>. QED BY <1>1, <1>2, <1>3

\* What an attempt makes of its run.
AttemptResult(r, row, new) ==
    /\ runs' = [runs EXCEPT ![r] = new]
    /\ new \in RunRow
    /\ new.app = row.app
    /\ new.attempts \in 0..MaxRunAttempts
    /\ new.status = "failed" => (new.retryAt <=> new.attempts < MaxRunAttempts)
    /\ new.status = "paused_human_action" =>
          /\ new.challenge \in Ids
          /\ challenge'[new.challenge] # NoRow
          /\ challenge'[new.challenge].provider = SiteOf[row.app]
    /\ auth'[SiteOf[row.app]] # NoRow
    /\ \A q \in Providers : auth[q] # NoRow => auth'[q] # NoRow
    /\ application' \in [Apps -> ApplicationStatus]

\* An attempt on a run that has attempts left rewrites the row by one of the results.
LEMMA AttemptRows ==
    ASSUME AutoIInv, NEW r \in Runs, NEW row \in RunRow, row.attempts < MaxRunAttempts,
           Attempt(r, row)
    PROVE  \E new : AttemptResult(r, row, new)
<1> USE DEF RunRow
<1> DEFINE p == SiteOf[row.app]
<1>0. /\ p \in Providers /\ row.attempts \in Nat /\ row.attempts + 1 \in 0..MaxRunAttempts
      /\ row.attempts \in 0..MaxRunAttempts
      /\ application \in [Apps -> ApplicationStatus] /\ NoRow \notin Ids
  BY AutomationConstantsOK DEF AutoIInv, AutoTypeOK
<1>1. EnsureSite(p)
  BY DEF Attempt, Submitted, Failed, HandedOff, HandOffTo
<1>2. \A q \in Providers : auth[q] # NoRow => auth'[q] # NoRow
  BY <1>0, <1>1, ProvidersStay DEF AutoIInv
<1>3. auth'[p] # NoRow
  BY <1>0, <1>1, ConstantsOK DEF EnsureSite, AutoIInv, IInv, TypeOK, AuthStates
<1> HIDE DEF p
<1>4. CASE Submitted(r, row)
  <2> DEFINE new == [row EXCEPT !.status = "submitted"]
  <2>1. new \in RunRow /\ new.app = row.app /\ new.attempts = row.attempts
        /\ new.status = "submitted"
    BY DEF RunStatus
  <2>2. runs' = [runs EXCEPT ![r] = new] /\ application' \in [Apps -> ApplicationStatus]
    BY <1>0, <1>4 DEF Submitted, ApplicationStatus
  <2> HIDE DEF new
  <2>3. AttemptResult(r, row, new)
    BY <1>0, <1>2, <1>3, <2>1, <2>2 DEF AttemptResult, p
  <2>. QED BY <2>3
<1>5. CASE Failed(r, row)
  <2> DEFINE retryAt == row.attempts + 1 < MaxRunAttempts
             new == Counted(row, "failed", retryAt, row.challenge)
  <2>1. new \in RunRow /\ new.app = row.app /\ new.attempts = row.attempts + 1
        /\ new.status = "failed" /\ new.retryAt = retryAt
    <3> HIDE DEF retryAt
    <3>1. retryAt \in BOOLEAN
      BY DEF retryAt
    <3>. QED BY <1>0, <3>1 DEF Counted, RunStatus
  <2>2. runs' = [runs EXCEPT ![r] = new] /\ application' = application
    BY <1>5 DEF Failed
  <2>3. new.retryAt <=> new.attempts < MaxRunAttempts
    BY <2>1
  <2> HIDE DEF new
  <2>4. AttemptResult(r, row, new)
    BY <1>0, <1>2, <1>3, <2>1, <2>2, <2>3 DEF AttemptResult, p
  <2>. QED BY <2>4
<1>6. CASE HandedOff(r, row)
  <2>1. PICK t \in HandOffTypes, c \in Ids :
          /\ HandOffTo(p, t, c)
          /\ runs' = [runs EXCEPT ![r] =
                        Counted(row, "paused_human_action", row.retryAt, c)]
          /\ application' = application
    BY <1>6 DEF HandedOff, p
  <2> DEFINE new == Counted(row, "paused_human_action", row.retryAt, c)
  <2>2. new \in RunRow /\ new.app = row.app /\ new.attempts = row.attempts + 1
        /\ new.status = "paused_human_action" /\ new.challenge = c
    BY <1>0 DEF Counted, RunStatus, ActiveRunStatus
  <2>3. challenge'[c] # NoRow /\ challenge'[c].provider = p
    <3> DEFINE old == IF Exists(c) THEN challenge[c] ELSE NewChallenge(p, t)
    <3>1. old \in ChallengeRow /\ old.provider = p
      BY <1>0, <2>1, ConstantsOK, RowFacts, TargetFacts
      DEF HandOffTo, AutoIInv, NewChallenge, ChallengeRow, InFlightStatus
    <3>2. challenge'[c] = [old EXCEPT !.status = "human_action_required"]
      BY <2>1 DEF HandOffTo, AutoIInv, IInv, TypeOK
    <3> HIDE DEF old
    <3>3. challenge'[c] \in ChallengeRow /\ challenge'[c].provider = p
      BY <3>1, <3>2 DEF ChallengeRow, InFlightStatus
    <3>. QED BY <3>3, NoRowIsNoRow
  <2> HIDE DEF new
  <2>4. AttemptResult(r, row, new)
    BY <1>0, <1>2, <1>3, <2>1, <2>2, <2>3 DEF AttemptResult, p, new
  <2>. QED BY <2>4
<1>. QED BY <1>4, <1>5, <1>6 DEF Attempt

\* An attempt on the only live run of its application keeps the invariant.
LEMMA AttemptInv ==
    ASSUME AutoIInv, [Next]_vars, NEW r \in Runs, NEW row, NEW new, row.app \in Apps,
           AttemptResult(r, row, new),
           latest' \in [Apps -> Runs \cup {NoRow}],
           latest'[row.app] = r,
           \A a \in Apps \ {row.app} : latest'[a] = latest[a],
           \A s \in Runs \ {r} : Live(s) => runs[s].app # row.app,
           UNCHANGED <<approval, permitted, configured>>
    PROVE  AutoIInv'
<1> USE DEF AttemptResult
<1>0. IInv /\ IInv' /\ AutoTypeOK
  BY NextInv DEF AutoIInv
<1>1. /\ runs'[r] = new /\ new # NoRow
      /\ \A s \in Runs \ {r} : runs'[s] = runs[s]
  BY <1>0, AutomationConstantsOK DEF AutoTypeOK
<1>2. AutoTypeOK'
  BY <1>0 DEF AutoTypeOK
<1>3. OneLiveRun'
  <2> SUFFICES ASSUME NEW s \in Runs, Live(s)' PROVE latest'[runs'[s].app] = s
    BY DEF OneLiveRun, Live, Active, RetryPending
  <2>1. CASE s = r
    BY <1>1, <2>1
  <2>2. CASE s # r
    <3>1. Live(s) /\ runs[s] \in RunRow /\ runs'[s] = runs[s]
      BY <1>0, <1>1, <2>2 DEF Live, Active, RetryPending, AutoTypeOK
    <3>2. runs[s].app \in Apps
      BY <3>1 DEF RunRow
    <3>. QED BY <2>2, <3>1, <3>2 DEF AutoIInv, OneLiveRun
  <2>. QED BY <2>1, <2>2
<1>4. RetryBudget'
  <2>1. runs'[r].status = "failed" => (runs'[r].retryAt <=> ~Exhausted(r)')
    <3>1. new.attempts < MaxRunAttempts <=> ~(new.attempts >= MaxRunAttempts)
      BY AutomationConstantsOK
    <3>2. Exhausted(r)' <=> new.attempts >= MaxRunAttempts
      BY <1>1 DEF Exhausted
    <3>. QED BY <1>1, <3>1, <3>2
  <2>. QED BY <1>1, <2>1 DEF AutoIInv, RetryBudget, Exhausted
<1>5. SitesKept'
  <2> SUFFICES ASSUME NEW s \in Runs, runs'[s] # NoRow
               PROVE  auth'[SiteOf[runs'[s].app]] # NoRow
    BY DEF SitesKept
  <2>1. CASE s = r
    BY <1>1, <2>1
  <2>2. CASE s # r
    <3>1. runs'[s] = runs[s] /\ runs[s] \in RunRow
      BY <1>0, <1>1, <2>2 DEF AutoTypeOK
    <3>2. SiteOf[runs[s].app] \in Providers
      BY <3>1, AutomationConstantsOK DEF RunRow
    <3>. QED BY <3>1, <3>2 DEF AutoIInv, SitesKept
  <2>. QED BY <2>1, <2>2
<1>6. PausedRunHasChallenge'
  <2> SUFFICES ASSUME NEW s \in Runs, runs'[s] # NoRow,
                      runs'[s].status = "paused_human_action"
               PROVE  /\ runs'[s].challenge # NoRow
                      /\ challenge'[runs'[s].challenge] # NoRow
                      /\ challenge'[runs'[s].challenge].provider = SiteOf[runs'[s].app]
    BY DEF PausedRunHasChallenge, Exists
  <2>1. CASE s = r
    BY <1>1, <2>1, AutomationConstantsOK
  <2>2. CASE s # r
    <3>1. runs'[s] = runs[s] /\ runs[s] \in RunRow
      BY <1>0, <1>1, <2>2 DEF AutoTypeOK
    <3>2. PICK c \in Ids : /\ c = runs[s].challenge /\ c # NoRow /\ Exists(c)
                           /\ challenge[c].provider = SiteOf[runs[s].app]
      BY <3>1 DEF AutoIInv, PausedRunHasChallenge, RunRow
    <3>3. auth'[challenge[c].provider] # NoRow
      BY <1>5, <3>1, <3>2 DEF SitesKept
    <3>4. Exists(c)' /\ challenge'[c].provider = challenge[c].provider
      BY <1>0, <3>2, <3>3, ChallengeStays
    <3>. QED BY <3>1, <3>2, <3>4 DEF Exists
  <2>. QED BY <2>1, <2>2
<1>. QED BY <1>0, <1>2, <1>3, <1>4, <1>5, <1>6 DEF AutoIInv

\* A first attempt, on a new run of an approved application.
LEMMA ExecuteInv ==
    ASSUME AutoIInv, [Next]_vars, NEW a \in Apps, NEW r \in Runs, Execute(a, r)
    PROVE  AutoIInv'
<1> DEFINE row == NewRun(a)
<1>1. row \in RunRow /\ row.app = a /\ row.attempts < MaxRunAttempts
  BY AutomationConstantsOK DEF NewRun, RunRow, RunStatus, ActiveRunStatus
<1>2. Attempt(r, row) /\ latest' = [latest EXCEPT ![a] = r] /\ runs[r] = NoRow
      /\ NoLiveRun(a) /\ UNCHANGED <<approval, permitted, configured>>
  BY DEF Execute, ExecuteOK
<1> HIDE DEF row
<1>3. PICK new : AttemptResult(r, row, new)
  BY <1>1, <1>2, AttemptRows
<1>4. latest' \in [Apps -> Runs \cup {NoRow}] /\ latest'[a] = r
      /\ \A b \in Apps \ {a} : latest'[b] = latest[b]
  BY <1>2 DEF AutoIInv, AutoTypeOK
<1>5. \A s \in Runs \ {r} : Live(s) => runs[s].app # a
  BY <1>2, AutomationConstantsOK DEF NoLiveRun, AutoIInv, OneLiveRun
<1>. QED BY <1>1, <1>2, <1>3, <1>4, <1>5, AttemptInv

\* A further attempt, on a live run that has not used its attempts up.
LEMMA RetryInv ==
    ASSUME AutoIInv, [Next]_vars, NEW r \in Runs, Retry(r)
    PROVE  AutoIInv'
<1>0. runs[r] \in RunRow /\ ~Exhausted(r) /\ Live(r) /\ runs[r] # NoRow
  BY DEF Retry, RetryOK, AutoIInv, AutoTypeOK, Live, Active, RetryPending, ActiveRunStatus
<1>a. PICK row : row = [runs[r] EXCEPT !.status = "running", !.retryAt = FALSE]
  OBVIOUS
<1>1. row \in RunRow /\ row.app = runs[r].app /\ row.attempts = runs[r].attempts
  BY <1>0, <1>a DEF RunRow, RunStatus, ActiveRunStatus
<1>2. Attempt(r, row) /\ latest' = latest /\ UNCHANGED <<approval, permitted, configured>>
  BY <1>a DEF Retry
<1>3. row.attempts < MaxRunAttempts /\ row.app \in Apps
  BY <1>0, <1>1, AutomationConstantsOK DEF Exhausted, RunRow
<1>4. PICK new : AttemptResult(r, row, new)
  BY <1>1, <1>2, <1>3, AttemptRows
<1>5. latest[row.app] = r /\ latest \in [Apps -> Runs \cup {NoRow}]
  BY <1>0, <1>1 DEF AutoIInv, OneLiveRun, AutoTypeOK
<1>6. \A s \in Runs \ {r} : Live(s) => runs[s].app # row.app
  BY <1>5 DEF AutoIInv, OneLiveRun
<1>. QED BY <1>2, <1>3, <1>4, <1>5, <1>6, AttemptInv

\* The authentication API leaves the runs alone and the foreign key keeps the
\* rows they point at.
LEMMA AuthRequestInv ==
    ASSUME AutoIInv, [Next]_vars, AuthRequest
    PROVE  AutoIInv'
<1>0. IInv /\ IInv' /\ AutoTypeOK /\ UNCHANGED autoVars
  BY NextInv DEF AutoIInv, AuthRequest
<1>1. AutoTypeOK' /\ OneLiveRun' /\ RetryBudget'
  BY <1>0 DEF AutoIInv, AutoTypeOK, OneLiveRun, RetryBudget, autoVars, Live, Active,
              RetryPending, Exhausted
<1>2. SitesKept'
  <2> SUFFICES ASSUME NEW r \in Runs, runs[r] # NoRow
               PROVE  auth'[SiteOf[runs[r].app]] # NoRow
    BY <1>0 DEF SitesKept, autoVars
  <2>1. PICK q \in Providers : q = SiteOf[runs[r].app]
    BY <1>0, AutomationConstantsOK DEF AutoTypeOK, RunRow
  <2>2. auth[q] # NoRow
    BY <2>1 DEF AutoIInv, SitesKept
  <2>3. CASE \E p \in Providers \ {q} : ProviderRequest(p)
    BY <1>0, <2>1, <2>2, <2>3, ProvidersStay
  <2>4. CASE auth'[q] # NoRow
    BY <2>1, <2>4
  <2>5. CASE \E c \in Ids : ChallengeRequest(c)
    BY <1>0, <2>1, <2>2, <2>5, ProvidersStay
  <2>. QED BY <2>1, <2>3, <2>4, <2>5 DEF AuthRequest
<1>3. PausedRunHasChallenge'
  <2> SUFFICES ASSUME NEW r \in Runs, runs[r] # NoRow,
                      runs[r].status = "paused_human_action"
               PROVE  /\ runs[r].challenge # NoRow
                      /\ challenge'[runs[r].challenge] # NoRow
                      /\ challenge'[runs[r].challenge].provider = SiteOf[runs[r].app]
    BY <1>0 DEF PausedRunHasChallenge, Exists, autoVars
  <2>1. PICK c \in Ids : /\ c = runs[r].challenge /\ c # NoRow /\ Exists(c)
                         /\ challenge[c].provider = SiteOf[runs[r].app]
    BY <1>0 DEF AutoIInv, AutoTypeOK, PausedRunHasChallenge, RunRow
  <2>2. auth'[challenge[c].provider] # NoRow
    BY <1>0, <1>2, <2>1 DEF SitesKept, autoVars
  <2>. QED BY <1>0, <2>1, <2>2, ChallengeStays DEF Exists
<1>. QED BY <1>0, <1>1, <1>2, <1>3 DEF AutoIInv

\* The user's and the operator's own requests touch no run and no challenge.
LEMMA OtherRequestInv ==
    ASSUME AutoIInv, Reconfigure \/ (\E a \in Apps : ApplicationRequest(a)) \/ UNCHANGED allVars
    PROVE  AutoIInv'
<1>1. UNCHANGED <<vars, runs, latest>>
  BY DEF Reconfigure, ApplicationRequest, UpdateStatus, RequestApproval, Decide,
         ToggleSource, allVars, autoVars
<1>2. IInv'
  BY <1>1, NextInv DEF AutoIInv
<1>3. AutoTypeOK'
  <2> USE DEF AutoIInv, AutoTypeOK
  <2>1. CASE Reconfigure
    BY <2>1 DEF Reconfigure
  <2>2. CASE \E a \in Apps, s \in StatusUpdates : UpdateStatus(a, s)
    BY <2>2, AutomationConstantsOK DEF UpdateStatus
  <2>3. CASE \E a \in Apps : RequestApproval(a)
    <3>1. \A a \in Apps : [approval[a] EXCEPT !.open = "pending"] \in Approvals
      BY DEF Approvals
    <3>. QED BY <2>3, <3>1 DEF RequestApproval
  <2>6. CASE \E a \in Apps : ToggleSource(a)
    <3>1. \A a \in Apps : (~permitted[a]) \in BOOLEAN
      OBVIOUS
    <3>. QED BY <2>6, <3>1 DEF ToggleSource
  <2>4. CASE \E a \in Apps, d \in Decisions : Decide(a, d)
    <3> PICK a \in Apps, d \in Decisions : Decide(a, d)
      BY <2>4
    <3>1. d \in DecisionTypes
      BY AutomationConstantsOK
    <3>2. [approval[a] EXCEPT !.open = "snoozed"] \in Approvals
      BY DEF Approvals
    <3>3. approval[a].approved \in BOOLEAN
      BY DEF Approvals
    <3>4. (approval[a].approved \/ d = "approve") \in BOOLEAN
      OBVIOUS
    <3>5. d # "snooze" =>
            [open |-> "none", approved |-> approval[a].approved \/ d = "approve"]
              \in Approvals
      BY <3>1, <3>4 DEF Approvals, DecisionTypes
    <3>. QED BY <3>2, <3>5 DEF Decide
  <2>5. CASE UNCHANGED allVars
    BY <2>5 DEF allVars, autoVars
  <2>. QED BY <2>1, <2>2, <2>3, <2>4, <2>5, <2>6 DEF ApplicationRequest
<1>4. OneLiveRun' /\ RetryBudget' /\ PausedRunHasChallenge' /\ SitesKept'
  BY <1>1 DEF AutoIInv, OneLiveRun, RetryBudget, PausedRunHasChallenge, SitesKept, vars,
              Live, Active, RetryPending, Exhausted, Exists
<1>. QED BY <1>2, <1>3, <1>4 DEF AutoIInv

\* Every request keeps the invariant.
LEMMA AutoNextInv == AutoIInv /\ [AutoNext]_allVars => AutoIInv'
<1> SUFFICES ASSUME AutoIInv, [AutoNext]_allVars PROVE AutoIInv'
  OBVIOUS
<1>1. [Next]_vars
  BY AutoStep DEF AutoIInv, IInv
<1>. QED
  BY <1>1, AuthRequestInv, OtherRequestInv, ExecuteInv, RetryInv DEF AutoNext

\* The invariant holds in every reachable state.
LEMMA AutoInvariance == AutoSpec => []AutoIInv
  BY AutoInitInv, AutoNextInv, PTL DEF AutoSpec

-----------------------------------------------------------------------------
\* Every automation row keeps to its columns' enumerations.
THEOREM AutomationTypeCorrect == AutoSpec => []AutoTypeOK
<1>1. AutoIInv => AutoTypeOK
  BY DEF AutoIInv
<1>. QED BY <1>1, AutoInvariance, PTL

\* Automation leaves the challenge machinery's specification intact, and with it
\* every invariant proved of HumanInLoop.
THEOREM AutomationRefinesHumanInLoop == AutoSpec => ChallengesAsBefore
<1>1. AutoInit => Init
  BY DEF AutoInit
<1>2. AutoIInv /\ [AutoNext]_allVars => [Next]_vars
  BY AutoStep DEF AutoIInv, IInv
<1>. QED BY <1>1, <1>2, AutoInvariance, PTL DEF AutoSpec, Spec, ChallengesAsBefore

\* However many runs and retries there are, at most one run of an application is
\* active or retry-pending, and it is the latest.
THEOREM AtMostOneLiveRun == AutoSpec => []OneLiveRun
<1>1. AutoIInv => OneLiveRun
  BY DEF AutoIInv
<1>. QED BY <1>1, AutoInvariance, PTL

\* Attempts of a run are capped, and a failed run is retryable exactly below the cap.
THEOREM AttemptsAreBudgeted == AutoSpec => []RetryBudget
<1>1. AutoIInv => RetryBudget
  BY DEF AutoIInv
<1>. QED BY <1>1, AutoInvariance, PTL

\* The challenge a paused run waits for exists and belongs to its site.
THEOREM PausedRunsCanBeResolved == AutoSpec => []PausedRunHasChallenge
<1>1. AutoIInv => PausedRunHasChallenge
  BY DEF AutoIInv
<1>. QED BY <1>1, AutoInvariance, PTL

\* No attempt is made on a run whose challenge is in flight.
THEOREM ChallengesAreNotBypassed == AutoSpec => NoBypass
<1>1. AutoIInv /\ [AutoNext]_allVars =>
        [\A r \in Runs :
            runs[r] # NoRow /\ runs[r].challenge # NoRow /\ runs'[r] # runs[r]
                => ~InFlight(runs[r].challenge)]_allVars
  <2> SUFFICES ASSUME AutoIInv, AutoNext, NEW r \in Runs, runs[r] # NoRow,
                      runs[r].challenge # NoRow, runs'[r] # runs[r]
               PROVE  ~InFlight(runs[r].challenge)
    OBVIOUS
  <2> USE DEF AutoIInv, AutoTypeOK, Attempt, Submitted, Failed, HandedOff
  <2>1. CASE AuthRequest \/ Reconfigure \/ \E a \in Apps : ApplicationRequest(a)
    BY <2>1 DEF AuthRequest, Reconfigure, ApplicationRequest, UpdateStatus,
                RequestApproval, Decide, ToggleSource, autoVars
  <2>2. CASE \E a \in Apps, s \in Runs : Execute(a, s)
    BY <2>2 DEF Execute
  <2>3. CASE \E s \in Runs : Retry(s)
    BY <2>3 DEF Retry, RetryOK
  <2>. QED BY <2>1, <2>2, <2>3 DEF AutoNext
<1>. QED BY <1>1, AutoInvariance, PTL DEF AutoSpec, NoBypass

\* No attempt, first or repeated, is made without an approval.
THEOREM AttemptsAreApproved == AutoSpec => ApprovedAttempts
<1>1. AutoIInv /\ [AutoNext]_allVars => [\A r \in Runs : AttemptApproved(r)]_allVars
  <2> SUFFICES ASSUME AutoIInv, AutoNext, NEW r \in Runs PROVE AttemptApproved(r)
    OBVIOUS
  <2>1. CASE AuthRequest \/ Reconfigure \/ \E a \in Apps : ApplicationRequest(a)
    BY <2>1 DEF AttemptApproved, AuthRequest, Reconfigure, ApplicationRequest, UpdateStatus,
                RequestApproval, Decide, ToggleSource, autoVars
  <2>2. CASE \E a \in Apps, s \in Runs : Execute(a, s)
    <3> PICK a \in Apps, s \in Runs : Execute(a, s)
      BY <2>2
    <3>1. PICK row : row = NewRun(a)
      OBVIOUS
    <3>2. row \in RunRow /\ row.app = a /\ row.attempts < MaxRunAttempts
      BY <3>1, AutomationConstantsOK DEF NewRun, RunRow, RunStatus, ActiveRunStatus
    <3>3. PICK new : AttemptResult(s, row, new)
      BY <3>1, <3>2, AttemptRows DEF Execute
    <3>4. ApprovedNow(a)
      BY DEF Execute, ExecuteOK
    <3>. QED
      BY <3>2, <3>3, <3>4
      DEF AttemptApproved, AttemptResult, ApprovedNow, AutoIInv, AutoTypeOK
  <2>3. CASE \E s \in Runs : Retry(s)
    <3> PICK s \in Runs : Retry(s)
      BY <2>3
    <3>0. runs[s] \in RunRow /\ ~Exhausted(s) /\ ApprovedNow(runs[s].app)
      BY DEF Retry, RetryOK, AutoIInv, AutoTypeOK
    <3>1. PICK row : row = [runs[s] EXCEPT !.status = "running", !.retryAt = FALSE]
      OBVIOUS
    <3>2. row \in RunRow /\ row.app = runs[s].app /\ row.attempts = runs[s].attempts
      BY <3>0, <3>1 DEF RunRow, RunStatus, ActiveRunStatus
    <3>3. row.attempts < MaxRunAttempts
      BY <3>0, <3>2, AutomationConstantsOK DEF Exhausted, RunRow
    <3>4. PICK new : AttemptResult(s, row, new)
      BY <3>1, <3>2, <3>3, AttemptRows DEF Retry
    <3>. QED
      BY <3>0, <3>2, <3>4
      DEF AttemptApproved, AttemptResult, ApprovedNow, AutoIInv, AutoTypeOK
  <2>. QED BY <2>1, <2>2, <2>3 DEF AutoNext
<1>. QED BY <1>1, AutoInvariance, PTL DEF AutoSpec, ApprovedAttempts
=============================================================================
