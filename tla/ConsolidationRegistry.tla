------------------------ MODULE ConsolidationRegistry ------------------------
(***************************************************************************)
(* ConsolidationRegistry (consolidation_registry.cpp): the lifecycle of    *)
(* consolidated artifacts, the mapping words that route sources to them,   *)
(* and the audit windows that decide about them.                           *)
(*                                                                         *)
(* Mutators hold writer_mutex_, so at most one of them is in progress: "op"*)
(* says where it is.  Hot readers hold no lock.  Every store a reader can  *)
(* observe is therefore a step of its own: each mapping word, each         *)
(* artifact state and each auditor pointer.  Reads by the lock holder of   *)
(* data that only lock holders write are part of the step that uses them,  *)
(* and a compare-and-swap by the lock holder on a word it has just looked  *)
(* up is one step with the lookup.                                         *)
(*                                                                         *)
(* Abstractions.  A specification's binding vector is a function from its  *)
(* sources to their ports, visited in any order.  An audit window is the   *)
(* sequence of its last observations (AuditWindow; the ring's own races    *)
(* are in ShadowAudit).  Of a recorder's pointer to an audit generation    *)
(* only its validity is kept: it points to the artifact's current one or   *)
(* to a retired one, whose contents nothing reads.                         *)
(***************************************************************************)
EXTENDS MappingWord, AuditPolicy, AuditWindow, FiniteSets

CONSTANTS
    NoArtifact,   \* not an artifact: the mutator works on none
    Sources,
    Specs,        \* specifications callers may nominate, valid or not
    Resolvers,    \* threads calling resolve()
    Recorders     \* threads calling record_observation()

ASSUME NoArtifactAssumption == NoArtifact \notin Artifacts

VARIABLES
    word,         \* mappings_.entries_
    state,        \* artifact -> lifecycle state; "absent" before nomination
    spec,         \* artifact -> its specification
    held,         \* artifact -> active_mappings, as source -> word or NoWord
    auditor,      \* artifact -> the audit generation current_auditor points to
    op,           \* the mutator holding writer_mutex_: "idle" or its place
    subject,      \* the artifact the mutator works on
    parent,       \* replace_active: the artifact being replaced
    todo,         \* sources its current loop has still to visit
    goal,         \* the state a release loop ends in if nothing is left
    resolver,     \* thread -> its resolve() in progress
    recorder      \* thread -> its record_observation() in progress

control == <<op, subject, parent, todo, goal>>
vars == <<word, state, spec, held, auditor, control, resolver, recorder>>

NoWord == [bound |-> FALSE]
NoSpec == [ports |-> << >>]
Generation(phase) == [phase |-> phase, window |-> << >>]
Idle == [pc |-> "idle"]

\* Between nomination and the terminal states.
States == {"absent", "nominated", "validated", "compiled", "shadowing",
           "activating", "active", "reopening", "dissolved", "rejected"}

Phases == {"nominated", "shadowing", "active"}

Ports(a) == spec[a].ports
BoundSources(a) == DOMAIN Ports(a)
HeldSources(a) == {s \in Sources : held[a][s] # NoWord}
NothingHeld == [s \in Sources |-> NoWord]

-----------------------------------------------------------------------------
Sample == [mismatch: BOOLEAN, seen: Phases]

AuditGeneration == [phase: Phases,
                    window: UNION {[1..n -> Sample] : n \in 0..WindowSize}]

ResolverStates ==
    {Idle} \cup
    [pc: {"check"}, source: Sources, word: BoundWords, live: BOOLEAN]

RecorderStates ==
    {Idle} \cup
    [pc: {"load"}, artifact: Artifacts, before: {"shadowing", "active"}] \cup
    [pc: {"recheck", "write"}, artifact: Artifacts,
     before: {"shadowing", "active"}, current: BOOLEAN]

Ops == {"idle", "shadow", "bind", "publish", "release", "move", "retire"}

TypeOK ==
    /\ word \in [Sources -> Words]
    /\ state \in [Artifacts -> States]
    /\ spec \in [Artifacts -> Specs \cup {NoSpec}]
    /\ held \in [Artifacts -> [Sources -> Words \cup {NoWord}]]
    /\ auditor \in [Artifacts -> AuditGeneration]
    /\ op \in Ops
    /\ subject \in Artifacts \cup {NoArtifact}
    /\ parent \in Artifacts \cup {NoArtifact}
    /\ todo \subseteq Sources
    /\ goal \in {"shadowing", "reopening", "dissolved"}
    /\ resolver \in [Resolvers -> ResolverStates]
    /\ recorder \in [Recorders -> RecorderStates]

-----------------------------------------------------------------------------
Init ==
    /\ word = [s \in Sources |-> Unbound(0)]
    /\ state = [a \in Artifacts |-> "absent"]
    /\ spec = [a \in Artifacts |-> NoSpec]
    /\ held = [a \in Artifacts |-> NothingHeld]
    /\ auditor = [a \in Artifacts |-> Generation("nominated")]
    /\ op = "idle"
    /\ subject = NoArtifact
    /\ parent = NoArtifact
    /\ todo = {}
    /\ goal = "reopening"
    /\ resolver = [r \in Resolvers |-> Idle]
    /\ recorder = [k \in Recorders |-> Idle]

-----------------------------------------------------------------------------
\* The mutator enters, moves on inside, or leaves its critical section.
Working(place, a, p, sources, outcome) ==
    /\ op' = place
    /\ subject' = a
    /\ parent' = p
    /\ todo' = sources
    /\ goal' = outcome

Continue(place, sources) ==
    Working(place, subject, parent, sources, goal)

Done == Working("idle", NoArtifact, NoArtifact, {}, "reopening")

SetState(a, value) == state' = [state EXCEPT ![a] = value]

\* Bug variant: the window is cleared in place, under a recorder's feet.
ResetInPlace(a, phase) ==
    /\ auditor' = [auditor EXCEPT ![a] = Generation(phase)]
    /\ UNCHANGED recorder

\* rotate_auditor publishes a new object; a recorder that loaded the pointer
\* before is left with a retired one.
Retired(c, a) ==
    IF c.pc \in {"recheck", "write"} /\ c.artifact = a
    THEN [pc |-> c.pc, artifact |-> a, before |-> c.before, current |-> FALSE]
    ELSE c

RotateAuditor(a, phase) ==
    /\ auditor' = [auditor EXCEPT ![a] = Generation(phase)]
    /\ recorder' = [k \in Recorders |-> Retired(recorder[k], a)]

-----------------------------------------------------------------------------
\* Mutators that store one artifact state.

\* Sources and slots in range, and distinct slots; the sources of a function
\* are distinct by themselves.
ValidSpecification(sp) ==
    /\ DOMAIN sp.ports # {}
    /\ DOMAIN sp.ports \subseteq Sources
    /\ \A s \in DOMAIN sp.ports : sp.ports[s].slot \in Slots
    /\ \A s, u \in DOMAIN sp.ports :
          sp.ports[s].slot = sp.ports[u].slot => s = u

Nominate(a, sp) ==
    /\ op = "idle"
    /\ state[a] = "absent"
    /\ ValidSpecification(sp)
    /\ sp.mature
    /\ spec' = [spec EXCEPT ![a] = sp]
    /\ SetState(a, "nominated")
    /\ UNCHANGED <<word, held, auditor, control, resolver, recorder>>

Transition(a, expected, desired) ==
    /\ op = "idle"
    /\ state[a] = expected
    /\ SetState(a, desired)
    /\ UNCHANGED <<word, spec, held, auditor, control, resolver, recorder>>

MarkValidated(a) == Transition(a, "nominated", "validated")
MarkCompiled(a) == Transition(a, "validated", "compiled")

Rejectable == {"nominated", "validated", "compiled", "shadowing"}

Reject(a) ==
    /\ state[a] \in Rejectable
    /\ Transition(a, state[a], "rejected")

\* dissolve of an artifact that is neither active nor reopening.
DissolveUnmapped(a) ==
    /\ state[a] \in {"nominated", "validated", "compiled", "shadowing"}
    /\ Transition(a, state[a], "dissolved")

-----------------------------------------------------------------------------
\* Bug variant: the artifact shadows on with the window it had.
BeginShadowKeepsWindow(a) ==
    /\ op = "idle"
    /\ state[a] \in {"compiled", "reopening"}
    /\ HeldSources(a) = {}
    /\ Working("shadow", a, NoArtifact, {}, "reopening")
    /\ UNCHANGED <<word, state, spec, held, auditor, resolver, recorder>>

\* begin_shadow: a fresh window first, then the state.
BeginShadow(a) ==
    /\ op = "idle"
    /\ state[a] \in {"compiled", "reopening"}
    /\ HeldSources(a) = {}
    /\ RotateAuditor(a, "shadowing")
    /\ Working("shadow", a, NoArtifact, {}, "reopening")
    /\ UNCHANGED <<word, state, spec, held, resolver>>

PublishShadowing ==
    /\ op = "shadow"
    /\ SetState(subject, "shadowing")
    /\ Done
    /\ UNCHANGED <<word, spec, held, auditor, resolver, recorder>>

-----------------------------------------------------------------------------
\* activate: audit, state activating, one word per source, window, state active.

AuditAccepts(a) == DecideShadow(SnapshotOf(auditor[a].window)) = "activate"

\* Bug variant: "active" is stored before the words are bound.
ActivateEarly(a) ==
    /\ op = "idle"
    /\ state[a] = "shadowing"
    /\ AuditAccepts(a)
    /\ SetState(a, "active")
    /\ held' = [held EXCEPT ![a] = NothingHeld]
    /\ Working("bind", a, NoArtifact, BoundSources(a), "shadowing")
    /\ UNCHANGED <<word, spec, auditor, resolver, recorder>>

Activate(a) ==
    /\ op = "idle"
    /\ state[a] = "shadowing"
    /\ AuditAccepts(a)
    /\ SetState(a, "activating")
    /\ held' = [held EXCEPT ![a] = NothingHeld]
    /\ Working("bind", a, NoArtifact, BoundSources(a), "shadowing")
    /\ UNCHANGED <<word, spec, auditor, resolver, recorder>>

Hold(a, s, w) ==
    held' = [held EXCEPT ![a] = [held[a] EXCEPT ![s] = w]]

BindSource(s) ==
    LET w == BindWord(subject, Ports(subject)[s].slot, word[s].generation)
    IN /\ op = "bind"
       /\ s \in todo
       /\ ~word[s].bound
       /\ word' = [word EXCEPT ![s] = w]
       /\ Hold(subject, s, w)
       /\ Continue("bind", todo \ {s})
       /\ UNCHANGED <<state, spec, auditor, resolver, recorder>>

\* Bug variant: the activation waits until the source is free.
BindWaits(s) ==
    /\ op = "bind"
    /\ s \in todo
    /\ word[s].bound
    /\ UNCHANGED vars

\* Another artifact routes the source: undo what this activation bound.
BindConflict(s) ==
    /\ op = "bind"
    /\ s \in todo
    /\ word[s].bound
    /\ Continue("release", HeldSources(subject))
    /\ UNCHANGED <<word, state, spec, held, auditor, resolver, recorder>>

RotateLive ==
    /\ op = "bind"
    /\ todo = {}
    /\ RotateAuditor(subject, "active")
    /\ Continue("publish", {})
    /\ UNCHANGED <<word, state, spec, held, resolver>>

\* Storing "active" makes every word of the artifact resolvable at once; a
\* resolver that has already read one of them is from now on a witness.
Routes(w, s, a) ==
    /\ OwnedBy(w, a)
    /\ s \in BoundSources(a)
    /\ w.slot = Ports(a)[s].slot

Witness(a) ==
    resolver' = [r \in Resolvers |->
        IF /\ resolver[r].pc = "check"
           /\ Routes(resolver[r].word, resolver[r].source, a)
           /\ Routes(word[resolver[r].source], resolver[r].source, a)
        THEN [resolver[r] EXCEPT !.live = TRUE]
        ELSE resolver[r]]

PublishActive ==
    /\ op = "publish"
    /\ SetState(subject, "active")
    /\ Witness(subject)
    /\ IF parent = NoArtifact THEN Done ELSE Continue("retire", {})
    /\ UNCHANGED <<word, spec, held, auditor, recorder>>

-----------------------------------------------------------------------------
\* release_mappings, as the tail of reopen, dissolve and a failed activate.

ReleaseSource(s) ==
    /\ op = "release"
    /\ s \in todo
    /\ IF word[s] = held[subject][s]
       THEN /\ word' = [word EXCEPT ![s] = ReleaseWord(word[s])]
            /\ Hold(subject, s, NoWord)
       ELSE UNCHANGED <<word, held>>
    /\ Continue("release", todo \ {s})
    /\ UNCHANGED <<state, spec, auditor, resolver, recorder>>

\* With words left over the artifact stays in, or falls back to, reopening.
ReleaseDone ==
    /\ op = "release"
    /\ todo = {}
    /\ SetState(subject, IF HeldSources(subject) = {} THEN goal ELSE "reopening")
    /\ Done
    /\ UNCHANGED <<word, spec, held, auditor, resolver, recorder>>

\* Bug variant: the words are released under the active state.
WithdrawLate(a, outcome) ==
    /\ op = "idle"
    /\ state[a] \in {"active", "reopening"}
    /\ Working("release", a, NoArtifact, HeldSources(a), outcome)
    /\ UNCHANGED <<word, state, spec, held, auditor, resolver, recorder>>

\* The non-active state is published before any word is released.
Withdraw(a, outcome) ==
    /\ op = "idle"
    /\ state[a] \in {"active", "reopening"}
    /\ SetState(a, "reopening")
    /\ Working("release", a, NoArtifact, HeldSources(a), outcome)
    /\ UNCHANGED <<word, spec, held, auditor, resolver, recorder>>

Reopen(a) == Withdraw(a, "reopening")
DissolveMapped(a) == Withdraw(a, "dissolved")

-----------------------------------------------------------------------------
\* replace_active: every word goes from the parent straight to the child.

\* Bug variant: the two source sets are not compared.
SameShape(p, a) == spec[p].shape = spec[a].shape

Compatible(p, a) ==
    /\ spec[p].shape = spec[a].shape
    /\ BoundSources(p) = BoundSources(a)
    /\ \A s \in BoundSources(a) : Ports(p)[s].kind = Ports(a)[s].kind

ReplaceActive(p, a) ==
    /\ op = "idle"
    /\ p # a
    /\ state[p] = "active"
    /\ state[a] = "shadowing"
    /\ HeldSources(a) = {}
    /\ Compatible(p, a)
    /\ AuditAccepts(a)
    /\ SetState(a, "activating")
    /\ held' = [held EXCEPT ![a] = NothingHeld]
    /\ Working("move", a, p, BoundSources(a), "shadowing")
    /\ UNCHANGED <<word, spec, auditor, resolver, recorder>>

\* The failed handoff: moved words are rebound to the parent, both artifacts'
\* mappings are captured anew, and both reopen unless the parent has all back.
RolledBack(s) ==
    IF held[subject][s] # NoWord /\ word[s].bound
    THEN RebindWord(word[s], parent, Ports(parent)[s].slot)
    ELSE word[s]

Captured(a, words) ==
    [s \in Sources |->
        IF s \in BoundSources(a) /\ OwnedBy(words[s], a) THEN words[s]
        ELSE NoWord]

AbandonReplace ==
    LET words == [s \in Sources |-> RolledBack(s)]
        whole == /\ \A s \in HeldSources(subject) : word[s].bound
                 /\ \A s \in BoundSources(parent) : OwnedBy(words[s], parent)
    IN /\ word' = words
       /\ held' = [held EXCEPT
                      ![parent] = Captured(parent, words),
                      ![subject] = IF whole THEN NothingHeld
                                   ELSE Captured(subject, words)]
       /\ state' = [state EXCEPT
                      ![parent] = IF whole THEN @ ELSE "reopening",
                      ![subject] = IF whole THEN "shadowing" ELSE "reopening"]
       /\ Done

MoveSource(s) ==
    LET w == RebindWord(word[s], subject, Ports(subject)[s].slot)
    IN /\ op = "move"
       /\ s \in todo
       /\ IF OwnedBy(word[s], parent)
          THEN /\ word' = [word EXCEPT ![s] = w]
               /\ Hold(subject, s, w)
               /\ Continue("move", todo \ {s})
               /\ UNCHANGED state
          ELSE AbandonReplace
       /\ UNCHANGED <<spec, auditor, resolver, recorder>>

\* Bug variant: the parent still remembers the words it has lost.
HandOffKeepsParent ==
    /\ op = "move"
    /\ todo = {}
    /\ RotateAuditor(subject, "active")
    /\ Continue("publish", {})
    /\ UNCHANGED <<word, state, spec, held, resolver>>

HandOff ==
    /\ op = "move"
    /\ todo = {}
    /\ held' = [held EXCEPT ![parent] = NothingHeld]
    /\ RotateAuditor(subject, "active")
    /\ Continue("publish", {})
    /\ UNCHANGED <<word, state, spec, resolver>>

\* PublishActive stores the child's state; the parent's follows.
RetireParent ==
    /\ op = "retire"
    /\ SetState(parent, "reopening")
    /\ Done
    /\ UNCHANGED <<word, spec, held, auditor, resolver, recorder>>

-----------------------------------------------------------------------------
\* resolve: the word, then the state of the artifact it names.  An unbound
\* word ends the call at once.

Live(w, s) == Routes(w, s, w.artifact) /\ state[w.artifact] = "active"

LookupSource(r, s) ==
    /\ resolver[r].pc = "idle"
    /\ word[s].bound
    /\ resolver' = [resolver EXCEPT ![r] =
                      [pc |-> "check", source |-> s, word |-> word[s],
                       live |-> Live(word[s], s)]]
    /\ UNCHANGED <<word, state, spec, held, auditor, control, recorder>>

\* Bug variant: a mapped artifact is taken to be an active one.
ResolvesMapped(r) == resolver[r].pc = "check"

Resolves(r) ==
    resolver[r].pc = "check" /\ state[resolver[r].word.artifact] = "active"

\* The call returns the word's artifact and slot if Resolves(r), else nothing.
CheckArtifact(r) ==
    /\ resolver[r].pc = "check"
    /\ resolver' = [resolver EXCEPT ![r] = Idle]
    /\ UNCHANGED <<word, state, spec, held, auditor, control, recorder>>

-----------------------------------------------------------------------------
\* record_observation: state, auditor pointer, state again, then the ring.

Recorded == <<word, state, spec, held, control, resolver>>

BeginRecord(k, a) ==
    /\ recorder[k].pc = "idle"
    /\ state[a] \in {"shadowing", "active"}
    /\ recorder' = [recorder EXCEPT ![k] =
                      [pc |-> "load", artifact |-> a, before |-> state[a]]]
    /\ UNCHANGED <<auditor, Recorded>>

LoadAuditor(k) ==
    LET c == recorder[k]
    IN /\ c.pc = "load"
       /\ recorder' = [recorder EXCEPT ![k] =
            IF auditor[c.artifact].phase = c.before
            THEN [pc |-> "recheck", artifact |-> c.artifact,
                  before |-> c.before, current |-> TRUE]
            ELSE Idle]
       /\ UNCHANGED <<auditor, Recorded>>

RecheckState(k) ==
    LET c == recorder[k]
    IN /\ c.pc = "recheck"
       /\ recorder' = [recorder EXCEPT ![k] =
            IF state[c.artifact] = c.before
            THEN [pc |-> "write", artifact |-> c.artifact,
                  before |-> c.before, current |-> c.current]
            ELSE Idle]
       /\ UNCHANGED <<auditor, Recorded>>

\* The generation may have been retired meanwhile; then nobody will read it.
WriteSample(k, mismatch) ==
    LET c == recorder[k]
        sample == [mismatch |-> mismatch, seen |-> c.before]
    IN /\ c.pc = "write"
       /\ recorder' = [recorder EXCEPT ![k] = Idle]
       /\ auditor' = IF c.current
                     THEN [auditor EXCEPT ![c.artifact] =
                             [phase |-> @.phase,
                              window |-> RecordIn(@.window, sample)]]
                     ELSE auditor
       /\ UNCHANGED Recorded

-----------------------------------------------------------------------------
\* checkpoint, taken under the mutex, and restore into a new registry.

\* The captured state of one artifact, and of one source, passes validation.
ArtifactRestorable(a) ==
    /\ state[a] # "activating"
    /\ auditor[a].phase \in Phases
    /\ state[a] \in {"shadowing", "active"} => auditor[a].phase = state[a]

WordRestorable(w, s) ==
    w.bound => /\ state[w.artifact] \in {"active", "reopening"}
               /\ Routes(w, s, w.artifact)

RestoredHeld(a) ==
    [s \in Sources |-> IF OwnedBy(word[s], a) THEN word[s] ELSE NoWord]

CheckpointRestores ==
    /\ \A a \in Artifacts : state[a] # "absent" => ArtifactRestorable(a)
    /\ \A s \in Sources : WordRestorable(word[s], s)
    /\ \A a \in Artifacts :
          state[a] = "active" =>
              {s \in Sources : RestoredHeld(a)[s] # NoWord} = BoundSources(a)

RestoredAuditor(a) ==
    LET rebuilt == RestoredWindow(SnapshotOf(auditor[a].window))
    IN [phase |-> auditor[a].phase,
        window |-> [i \in DOMAIN rebuilt |-> [mismatch |-> rebuilt[i].mismatch,
                                              seen |-> auditor[a].phase]]]

\* The process ends between two mutators and restores the image it had just
\* made durable; readers of the old registry are gone.
Restart ==
    /\ op = "idle"
    /\ CheckpointRestores
    /\ held' = [a \in Artifacts |-> RestoredHeld(a)]
    /\ auditor' = [a \in Artifacts |-> RestoredAuditor(a)]
    /\ resolver' = [r \in Resolvers |-> Idle]
    /\ recorder' = [k \in Recorders |-> Idle]
    /\ UNCHANGED <<word, state, spec, control>>

-----------------------------------------------------------------------------
\* Callers start mutators; a started mutator only depends on the scheduler.
StartMutator ==
    \E a \in Artifacts :
        \/ \E sp \in Specs : Nominate(a, sp)
        \/ MarkValidated(a)
        \/ MarkCompiled(a)
        \/ BeginShadow(a)
        \/ Activate(a)
        \/ Reopen(a)
        \/ DissolveMapped(a)
        \/ DissolveUnmapped(a)
        \/ Reject(a)
        \/ \E p \in Artifacts : ReplaceActive(p, a)

ContinueMutator ==
    \/ PublishShadowing
    \/ \E s \in Sources :
          BindSource(s) \/ BindConflict(s) \/ ReleaseSource(s) \/ MoveSource(s)
    \/ RotateLive
    \/ PublishActive
    \/ ReleaseDone
    \/ HandOff
    \/ RetireParent

Resolve(r) == CheckArtifact(r) \/ \E s \in Sources : LookupSource(r, s)

Record(k) ==
    \/ \E a \in Artifacts : BeginRecord(k, a)
    \/ LoadAuditor(k)
    \/ RecheckState(k)
    \/ \E mismatch \in BOOLEAN : WriteSample(k, mismatch)

Next ==
    \/ StartMutator
    \/ ContinueMutator
    \/ \E r \in Resolvers : Resolve(r)
    \/ \E k \in Recorders : Record(k)
    \/ Restart

Spec == Init /\ [][Next]_vars

\* The thread that holds the mutex runs on; nothing else is obliged to happen.
FairSpec == Spec /\ WF_vars(ContinueMutator)

-----------------------------------------------------------------------------
\* The artifact whose words replace_active is taking away, while it does so.
BeingReplaced(a) == a = parent

(***************************************************************************)
(* class-ii-lifecycle.md: "Reopening publishes the non-active state before *)
(* clearing any mapping", and activation publishes the active state after  *)
(* the last one.  So whenever an artifact is active, every source of its   *)
(* specification is mapped to it, at its declared slot; only the parent of *)
(* a replace_active in progress, which stays active while its words leave, *)
(* is excepted.                                                            *)
(***************************************************************************)
ActiveOwnsSources ==
    \A a \in Artifacts :
        state[a] = "active" /\ ~BeingReplaced(a) =>
            \A s \in BoundSources(a) : Routes(word[s], s, a)

(***************************************************************************)
(* active_mappings mirrors the table: outside a replacement, an artifact   *)
(* remembers exactly the words that name it, generation included, and only *)
(* an activating, active or reopening artifact has any.  Hence no release  *)
(* by its owner can meet a word it does not expect, and none is leaked.    *)
(***************************************************************************)
HeldMirrorsTable ==
    \A a \in Artifacts :
        ~BeingReplaced(a) =>
            \A s \in Sources :
                /\ held[a][s] = (IF OwnedBy(word[s], a) THEN word[s] ELSE NoWord)
                /\ OwnedBy(word[s], a) =>
                      /\ state[a] \in {"activating", "active", "reopening"}
                      /\ Routes(word[s], s, a)

(***************************************************************************)
(* replace_active never meets a word that left the parent: the rollback    *)
(* and the mapping_conflict it reports are unreachable, because the parent *)
(* is active and owns all it declares when the lock is taken.              *)
(***************************************************************************)
ReplaceMeetsParentWords ==
    op = "move" => \A s \in todo : OwnedBy(word[s], parent)

(***************************************************************************)
(* resolve reads a word and then, some time later, the state of the        *)
(* artifact it names, without a lock.  Whenever that check is about to     *)
(* succeed, there was an instant since the call began at which the source  *)
(* was mapped to that artifact, at that slot, while it was active: no call *)
(* pieces together a route that never existed.                             *)
(***************************************************************************)
ResolveSawLiveRoute ==
    \A r \in Resolvers : Resolves(r) => resolver[r].live

(***************************************************************************)
(* class-ii-lifecycle.md: "A recorder that races a phase transition        *)
(* refuses to write if either the state or window phase has changed,       *)
(* preventing late shadow samples from contaminating a new live audit."    *)
(* Every sample in an artifact's window was reported by a recorder that    *)
(* saw the artifact in the phase the window belongs to.                    *)
(***************************************************************************)
NoContamination ==
    \A a \in Artifacts :
        \A i \in DOMAIN auditor[a].window :
            auditor[a].window[i].seen = auditor[a].phase

(***************************************************************************)
(* Whenever no mutator runs, the image checkpoint() would capture passes   *)
(* every validation of restore(), and restore rebuilds the very            *)
(* active_mappings the lost registry had.                                  *)
(***************************************************************************)
CheckpointIsFaithful ==
    op = "idle" => /\ CheckpointRestores
                   /\ \A a \in Artifacts : RestoredHeld(a) = held[a]

(***************************************************************************)
(* Two artifacts are never active on the same source, except the two of a  *)
(* replacement between its two last stores.                                *)
(***************************************************************************)
OneActivePerSource ==
    \A a, b \in Artifacts :
        /\ a # b
        /\ state[a] = "active"
        /\ state[b] = "active"
        /\ BoundSources(a) \cap BoundSources(b) # {}
        => op = "retire" /\ {a, b} = {subject, parent}

(***************************************************************************)
(* Every mutator that takes the mutex gives it back.                       *)
(***************************************************************************)
MutatorsFinish == op # "idle" ~> op = "idle"

=============================================================================
