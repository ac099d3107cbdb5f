--------------------------- MODULE RegistryProofs ----------------------------
(***************************************************************************)
(* Proofs about ConsolidationRegistry, for any sources, artifacts, slots,  *)
(* specifications, readers, window sizes and policies.                     *)
(*                                                                         *)
(* None of the ownership properties is inductive by itself: an action      *)
(* trusts the place its mutator has reached (its words bound so far, the   *)
(* parent's words not yet moved), the words trust the states of the        *)
(* artifacts they name, and the states trust the words.  The inductive     *)
(* invariant says what each place of a mutator guarantees.                 *)
(*                                                                         *)
(* The second part proves that the registry implements SourceRouting:      *)
(* storing "active" publishes an artifact's routes, storing "reopening"    *)
(* over it withdraws them, moving a word to a replacement that is not      *)
(* active yet detaches its source, and every other step leaves what        *)
(* resolve() would return as it was.                                       *)
(***************************************************************************)
EXTENDS RegistryRouting, SequenceTheorems, TLAPS

Owns(a, s) == OwnedBy(word[s], a)

OwnsAll(a) == \A s \in BoundSources(a) : Owns(a, s)
OwnsNothing(a) == \A s \in Sources : ~Owns(a, s)

SpecsAreValid ==
    \A a \in Artifacts : state[a] # "absent" => ValidSpecification(spec[a])

\* A bound word names an artifact that may have words, at a port it declares.
WordsAreRoutes ==
    \A s \in Sources :
        word[s].bound =>
            /\ state[word[s].artifact] \in {"activating", "active", "reopening"}
            /\ Routes(word[s], s, word[s].artifact)

HeldIsTable ==
    \A a \in Artifacts :
        a # parent =>
            \A s \in Sources :
                held[a][s] = IF Owns(a, s) THEN word[s] ELSE NoWord

ActiveOwns ==
    \A a \in Artifacts : state[a] = "active" /\ a # parent => OwnsAll(a)

\* Only the mutator's own artifact is ever found activating.
ActivatingIsSubject ==
    \A a \in Artifacts :
        state[a] = "activating" =>
            a = subject /\ op \in {"bind", "release", "move", "publish"}

\* A replacement in progress: the child takes over the parent's sources.
Replacing ==
    /\ parent \in Artifacts
    /\ parent # subject
    /\ state[parent] = "active"
    /\ BoundSources(parent) = BoundSources(subject)

\* What holds at each place of a mutator.
AtIdle == subject = NoArtifact /\ parent = NoArtifact

AtShadow ==
    /\ parent = NoArtifact
    /\ state[subject] \in {"compiled", "reopening"}
    /\ OwnsNothing(subject)

AtBind ==
    /\ parent = NoArtifact
    /\ state[subject] = "activating"
    /\ todo \subseteq BoundSources(subject)
    /\ \A s \in BoundSources(subject) \ todo : Owns(subject, s)

AtRelease ==
    /\ parent = NoArtifact
    /\ state[subject] \in {"activating", "reopening"}
    /\ \A s \in Sources : s \in todo <=> Owns(subject, s)

AtMove ==
    /\ Replacing
    /\ state[subject] = "activating"
    /\ todo \subseteq BoundSources(subject)
    /\ \A s \in todo : Owns(parent, s)
    /\ \A s \in BoundSources(subject) \ todo : Owns(subject, s)

AtPublish ==
    /\ state[subject] = "activating"
    /\ OwnsAll(subject)
    /\ parent # NoArtifact => Replacing /\ held[parent] = NothingHeld

AtRetire ==
    /\ Replacing
    /\ state[subject] = "active"
    /\ held[parent] = NothingHeld

PlaceHolds ==
    /\ op = "idle" => AtIdle
    /\ op # "idle" => subject \in Artifacts
    /\ op = "shadow" => AtShadow
    /\ op = "bind" => AtBind
    /\ op = "release" => AtRelease
    /\ op = "move" => AtMove
    /\ op = "publish" => AtPublish
    /\ op = "retire" => AtRetire

Ownership ==
    /\ SpecsAreValid
    /\ WordsAreRoutes
    /\ HeldIsTable
    /\ ActiveOwns
    /\ ActivatingIsSubject
    /\ PlaceHolds

\* The phase of the current audit window is that of the state it decides about.
PhaseMatches ==
    /\ \A a \in Artifacts :
          state[a] \in {"shadowing", "active"} => auditor[a].phase = state[a]
    /\ op = "shadow" => auditor[subject].phase = "shadowing"
    /\ op = "bind" => auditor[subject].phase = "shadowing"
    /\ op = "release" /\ goal = "shadowing" => auditor[subject].phase = "shadowing"
    /\ op = "release" /\ state[subject] = "activating" => goal = "shadowing"
    /\ op = "publish" => auditor[subject].phase = "active"
    /\ op = "bind" => goal = "shadowing"

\* A recorder that still points to the current window saw its phase.
RecordersMatch ==
    \A k \in Recorders :
        LET c == recorder[k]
        IN c.pc \in {"recheck", "write"} /\ c.current =>
              auditor[c.artifact].phase = c.before

\* A resolver's word was a route of the artifact it names, and is still one of
\* its specification; if the artifact is active, the resolver is a witness.
ResolversMatch ==
    \A r \in Resolvers :
        LET c == resolver[r]
        IN c.pc = "check" =>
              /\ state[c.word.artifact] # "absent"
              /\ Routes(c.word, c.source, c.word.artifact)
              /\ state[c.word.artifact] = "active" => c.live

IInv ==
    /\ TypeOK
    /\ Ownership
    /\ PhaseMatches
    /\ NoContamination
    /\ RecordersMatch
    /\ ResolversMatch

-----------------------------------------------------------------------------
\* What a word is, whichever operation installed it.
LEMMA GenerationFacts ==
    ASSUME NEW g \in Generations
    PROVE  NextGeneration(g) \in Generations
  BY GenerationAssumption DEF NextGeneration, Generations

LEMMA WordFacts ==
    ASSUME NEW w \in Words
    PROVE  /\ w.bound \in BOOLEAN
           /\ w.generation \in Generations
           /\ w.bound => /\ w.artifact \in Artifacts
                         /\ w.slot \in Slots
                         /\ w \in BoundWords
                         /\ w # NoWord
  <1>1. CASE w \in UnboundWords
    <2>1. w.bound = FALSE /\ w.generation \in Generations
      BY <1>1 DEF UnboundWords
    <2> QED
      BY <2>1
  <1>2. CASE w \in BoundWords
    <2>1. /\ w.bound = TRUE
          /\ w.generation \in Generations
          /\ w.artifact \in Artifacts
          /\ w.slot \in Slots
      BY <1>2 DEF BoundWords
    <2>2. w # NoWord
      BY <2>1 DEF NoWord
    <2> QED
      BY <1>2, <2>1, <2>2
  <1> QED
    BY <1>1, <1>2 DEF Words

LEMMA BindFacts ==
    ASSUME NEW a \in Artifacts, NEW slot \in Slots, NEW g \in Generations
    PROVE  /\ BindWord(a, slot, g) \in Words
           /\ BindWord(a, slot, g).bound
           /\ BindWord(a, slot, g).artifact = a
           /\ BindWord(a, slot, g).slot = slot
           /\ BindWord(a, slot, g).generation = g
  BY DEF BindWord, Bound, Words, BoundWords

LEMMA ReleaseFacts ==
    ASSUME NEW w \in Words
    PROVE  /\ ReleaseWord(w) \in Words
           /\ ~ReleaseWord(w).bound
  BY WordFacts, GenerationFacts
     DEF ReleaseWord, Unbound, Words, UnboundWords

LEMMA RebindFacts ==
    ASSUME NEW w \in Words, NEW a \in Artifacts, NEW slot \in Slots
    PROVE  /\ RebindWord(w, a, slot) \in Words
           /\ RebindWord(w, a, slot).bound
           /\ RebindWord(w, a, slot).artifact = a
           /\ RebindWord(w, a, slot).slot = slot
  BY WordFacts, GenerationFacts
     DEF RebindWord, Bound, Words, BoundWords

\* A state in which an artifact can have no word is one it owns nothing in.
LEMMA QuietOwnsNothing ==
    ASSUME TypeOK, WordsAreRoutes, NEW a \in Artifacts,
           state[a] \notin {"activating", "active", "reopening"}
    PROVE  OwnsNothing(a)
  BY DEF TypeOK, WordsAreRoutes, OwnsNothing, Owns, OwnedBy

\* Outside a replacement, what an artifact holds is what it owns.
LEMMA HeldIsOwned ==
    ASSUME TypeOK, HeldIsTable, NEW a \in Artifacts, a # parent,
           NEW s \in Sources
    PROVE  s \in HeldSources(a) <=> Owns(a, s)
  BY WordFacts DEF TypeOK, HeldIsTable, HeldSources, Owns, OwnedBy

\* The sources and slots of a nominated artifact are the table's.
LEMMA ValidPorts ==
    ASSUME SpecsAreValid, NEW a \in Artifacts, state[a] # "absent"
    PROVE  /\ BoundSources(a) \subseteq Sources
           /\ BoundSources(a) # {}
           /\ \A s \in BoundSources(a) : Ports(a)[s].slot \in Slots
  BY DEF SpecsAreValid, ValidSpecification, BoundSources, Ports

-----------------------------------------------------------------------------
(***************************************************************************)
(* Ownership, action by action.                                            *)
(***************************************************************************)

\* An idle registry, one state store, on an artifact without words.
LEMMA RestateOwnership ==
    ASSUME TypeOK, Ownership, NEW a \in Artifacts, NEW value,
           op = "idle", OwnsNothing(a), state[a] # "absent",
           value \notin {"activating", "active"},
           SetState(a, value), UNCHANGED <<word, spec, held, control>>
    PROVE  Ownership'
  <1> USE DEF TypeOK, Ownership, control
  <1>1. SpecsAreValid'
    BY DEF SpecsAreValid, SetState, ValidSpecification
  <1>2. WordsAreRoutes'
    BY WordFacts DEF WordsAreRoutes, SetState, OwnsNothing, Owns, OwnedBy, Routes,
       BoundSources, Ports
  <1>3. HeldIsTable'
    BY DEF HeldIsTable, Owns
  <1>4. ActiveOwns'
    BY DEF ActiveOwns, SetState, OwnsAll, Owns, BoundSources, Ports
  <1>5. ActivatingIsSubject'
    BY DEF ActivatingIsSubject, SetState
  <1>6. PlaceHolds'
    BY DEF PlaceHolds, AtIdle
  <1> QED
    BY <1>1, <1>2, <1>3, <1>4, <1>5, <1>6

LEMMA NominateOwnership ==
    ASSUME TypeOK, Ownership, NEW a \in Artifacts, NEW sp \in Specs,
           Nominate(a, sp)
    PROVE  Ownership'
  <1> USE DEF TypeOK, Ownership, Nominate, SetState, control
  <1>1. SpecsAreValid'
    BY DEF SpecsAreValid, ValidSpecification
  <1>2. WordsAreRoutes'
    <2> SUFFICES ASSUME NEW s \in Sources, word[s].bound
                 PROVE  /\ state'[word[s].artifact] \in {"activating", "active", "reopening"}
                        /\ Routes(word[s], s, word[s].artifact)'
      BY DEF WordsAreRoutes
    <2>1. word[s].artifact \in Artifacts /\ word[s].artifact # a
      BY WordFacts DEF WordsAreRoutes
    <2> QED
      BY <2>1 DEF WordsAreRoutes, Routes, OwnedBy, BoundSources, Ports
  <1>3. HeldIsTable'
    BY DEF HeldIsTable, Owns
  <1>4. ActiveOwns'
    BY DEF ActiveOwns, OwnsAll, Owns, BoundSources, Ports
  <1>5. ActivatingIsSubject'
    BY DEF ActivatingIsSubject
  <1>6. PlaceHolds'
    BY DEF PlaceHolds, AtIdle
  <1> QED
    BY <1>1, <1>2, <1>3, <1>4, <1>5, <1>6

LEMMA BeginShadowOwnership ==
    ASSUME TypeOK, Ownership, NEW a \in Artifacts, BeginShadow(a)
    PROVE  Ownership'
  <1> USE DEF TypeOK, Ownership, BeginShadow, Working
  <1>1. SpecsAreValid'
    BY DEF SpecsAreValid, ValidSpecification
  <1>2. WordsAreRoutes'
    BY DEF WordsAreRoutes, Routes, BoundSources, Ports
  <1>3. parent = NoArtifact /\ parent' = NoArtifact
    BY DEF PlaceHolds, AtIdle
  <1>4. HeldIsTable'
    BY <1>3 DEF HeldIsTable, Owns
  <1>5. ActiveOwns'
    BY <1>3 DEF ActiveOwns, OwnsAll, Owns, BoundSources, Ports
  <1>6. ActivatingIsSubject'
    BY DEF ActivatingIsSubject
  <1>7. OwnsNothing(a)
    BY <1>3, HeldIsOwned, NoArtifactAssumption DEF OwnsNothing
  <1>8. AtShadow'
    BY <1>3, <1>7 DEF AtShadow, OwnsNothing, Owns
  <1>9. PlaceHolds'
    BY <1>8 DEF PlaceHolds
  <1> QED
    BY <1>1, <1>2, <1>4, <1>5, <1>6, <1>9

LEMMA PublishShadowingOwnership ==
    ASSUME TypeOK, Ownership, PublishShadowing
    PROVE  Ownership'
  <1> USE DEF TypeOK, Ownership, PublishShadowing, SetState, Done, Working
  <1>1. subject \in Artifacts /\ AtShadow
    BY DEF PlaceHolds
  <1>2. SpecsAreValid'
    BY <1>1 DEF SpecsAreValid, ValidSpecification, AtShadow
  <1>3. WordsAreRoutes'
    BY <1>1, WordFacts DEF AtShadow, OwnsNothing, Owns, WordsAreRoutes, Routes,
       OwnedBy, BoundSources, Ports
  <1>4. HeldIsTable'
    BY <1>1 DEF AtShadow, HeldIsTable, Owns
  <1>5. ActiveOwns'
    BY <1>1 DEF AtShadow, ActiveOwns, OwnsAll, Owns, BoundSources, Ports
  <1>6. ActivatingIsSubject'
    BY <1>1 DEF ActivatingIsSubject
  <1>7. PlaceHolds'
    BY DEF PlaceHolds, AtIdle
  <1> QED
    BY <1>2, <1>3, <1>4, <1>5, <1>6, <1>7

LEMMA ActivateOwnership ==
    ASSUME TypeOK, Ownership, NEW a \in Artifacts, Activate(a)
    PROVE  Ownership'
  <1> USE DEF TypeOK, Ownership, Activate, SetState, Working
  <1>1. parent = NoArtifact /\ parent' = NoArtifact
    BY DEF PlaceHolds, AtIdle
  <1>2. OwnsNothing(a)
    BY QuietOwnsNothing
  <1>3. SpecsAreValid'
    BY DEF SpecsAreValid, ValidSpecification
  <1>4. WordsAreRoutes'
    BY DEF WordsAreRoutes, Routes, BoundSources, Ports
  <1>5. HeldIsTable'
    BY <1>1, <1>2 DEF HeldIsTable, Owns, OwnsNothing, NothingHeld
  <1>6. ActiveOwns'
    BY <1>1 DEF ActiveOwns, OwnsAll, Owns, BoundSources, Ports
  <1>7. ActivatingIsSubject'
    BY DEF ActivatingIsSubject
  <1>8. AtBind'
    BY <1>1 DEF AtBind, BoundSources, Ports
  <1>9. PlaceHolds'
    BY <1>8 DEF PlaceHolds
  <1> QED
    BY <1>3, <1>4, <1>5, <1>6, <1>7, <1>9

LEMMA BindSourceOwnership ==
    ASSUME TypeOK, Ownership, NEW s \in Sources, BindSource(s)
    PROVE  Ownership'
  <1> DEFINE w == BindWord(subject, Ports(subject)[s].slot, word[s].generation)
  <1> USE DEF TypeOK, Ownership
  <1>1. /\ op = "bind" /\ op' = "bind"
        /\ s \in todo
        /\ ~word[s].bound
        /\ word' = [word EXCEPT ![s] = w]
        /\ held' = [held EXCEPT ![subject] = [held[subject] EXCEPT ![s] = w]]
        /\ todo' = todo \ {s}
        /\ UNCHANGED <<state, spec, subject, parent>>
    BY DEF BindSource, Continue, Working, Hold
  <1>2. subject \in Artifacts /\ AtBind
    BY <1>1 DEF PlaceHolds
  <1>3. Ports(subject)[s].slot \in Slots
    BY <1>1, <1>2, ValidPorts DEF AtBind
  <1>4. /\ w \in Words
        /\ w.bound
        /\ w.artifact = subject
        /\ w.slot = Ports(subject)[s].slot
    BY <1>2, <1>3, BindFacts, WordFacts
  <1>5. Routes(w, s, subject)
    BY <1>1, <1>2, <1>4 DEF AtBind, Routes, OwnedBy
  <1> HIDE DEF w
  <1>6. \A b \in Artifacts, u \in Sources :
            Owns(b, u)' <=> Owns(b, u) \/ (b = subject /\ u = s)
    BY <1>1, <1>4 DEF Owns, OwnedBy
  <1>7. SpecsAreValid'
    BY <1>1 DEF SpecsAreValid, ValidSpecification
  <1>8. WordsAreRoutes'
    BY <1>1, <1>2, <1>4, <1>5, WordFacts
       DEF AtBind, WordsAreRoutes, Routes, OwnedBy, BoundSources, Ports
  <1>9. HeldIsTable'
    BY <1>1, <1>2, <1>4, <1>6 DEF HeldIsTable, Owns, OwnedBy
  <1>10. ActiveOwns'
    BY <1>1, <1>6 DEF ActiveOwns, OwnsAll, BoundSources, Ports, SpecsAreValid,
       ValidSpecification
  <1>11. ActivatingIsSubject'
    BY <1>1 DEF ActivatingIsSubject
  <1>12. AtBind'
    <2>1. \A u \in Sources : Owns(subject, u) => word'[u] = word[u] \/ u = s
      BY <1>1
    <2> QED
      BY <1>1, <1>2, <1>4, <2>1 DEF AtBind, BoundSources, Ports, Owns, OwnedBy
  <1>13. PlaceHolds'
    BY <1>1, <1>2, <1>12 DEF PlaceHolds
  <1> QED
    BY <1>7, <1>8, <1>9, <1>10, <1>11, <1>13

LEMMA BindConflictOwnership ==
    ASSUME TypeOK, Ownership, NEW s \in Sources, BindConflict(s)
    PROVE  Ownership'
  <1> USE DEF TypeOK, Ownership, BindConflict, Continue, Working
  <1>1. subject \in Artifacts /\ AtBind
    BY DEF PlaceHolds
  <1>2. \A u \in Sources : u \in HeldSources(subject) <=> Owns(subject, u)
    BY <1>1, HeldIsOwned, NoArtifactAssumption DEF AtBind
  <1>3. SpecsAreValid'
    BY DEF SpecsAreValid, ValidSpecification
  <1>4. WordsAreRoutes'
    BY DEF WordsAreRoutes, Routes, BoundSources, Ports
  <1>5. HeldIsTable'
    BY DEF HeldIsTable, Owns
  <1>6. ActiveOwns'
    BY DEF ActiveOwns, OwnsAll, Owns, BoundSources, Ports
  <1>7. ActivatingIsSubject'
    BY DEF ActivatingIsSubject
  <1>8. AtRelease'
    BY <1>1, <1>2 DEF AtBind, AtRelease, Owns
  <1>9. PlaceHolds'
    BY <1>1, <1>8 DEF PlaceHolds
  <1> QED
    BY <1>3, <1>4, <1>5, <1>6, <1>7, <1>9

LEMMA RotateLiveOwnership ==
    ASSUME TypeOK, Ownership, RotateLive
    PROVE  Ownership'
  <1> USE DEF TypeOK, Ownership, RotateLive, Continue, Working
  <1>1. subject \in Artifacts /\ AtBind
    BY DEF PlaceHolds
  <1>2. SpecsAreValid'
    BY DEF SpecsAreValid, ValidSpecification
  <1>3. WordsAreRoutes'
    BY DEF WordsAreRoutes, Routes, BoundSources, Ports
  <1>4. HeldIsTable'
    BY DEF HeldIsTable, Owns
  <1>5. ActiveOwns'
    BY DEF ActiveOwns, OwnsAll, Owns, BoundSources, Ports
  <1>6. ActivatingIsSubject'
    BY DEF ActivatingIsSubject
  <1>7. AtPublish'
    BY <1>1 DEF AtBind, AtPublish, OwnsAll, Owns, BoundSources, Ports
  <1>8. PlaceHolds'
    BY <1>1, <1>7 DEF PlaceHolds
  <1> QED
    BY <1>2, <1>3, <1>4, <1>5, <1>6, <1>8

LEMMA PublishActiveOwnership ==
    ASSUME TypeOK, Ownership, PublishActive
    PROVE  Ownership'
  <1> USE DEF TypeOK, Ownership, PublishActive, SetState, Done, Continue, Working
  <1>1. subject \in Artifacts /\ AtPublish
    BY DEF PlaceHolds
  <1>2. SpecsAreValid'
    BY <1>1 DEF SpecsAreValid, ValidSpecification, AtPublish
  <1>3. WordsAreRoutes'
    BY <1>1, WordFacts DEF WordsAreRoutes, Routes, OwnedBy, BoundSources, Ports
  <1>4. \A b \in Artifacts : OwnsAll(b) => OwnsAll(b)'
    BY DEF OwnsAll, Owns, BoundSources, Ports
  <1>5. \A b \in Artifacts : state'[b] = "active" => b = subject \/ state[b] = "active"
    BY <1>1
  <1>6. CASE parent = NoArtifact
    <2>1. op' = "idle" /\ subject' = NoArtifact /\ parent' = NoArtifact
      BY <1>6
    <2>2. HeldIsTable'
      BY <1>6, <2>1 DEF HeldIsTable, Owns
    <2>3. ActiveOwns'
      BY <1>1, <1>4, <1>5, <1>6, <2>1, NoArtifactAssumption
         DEF ActiveOwns, AtPublish
    <2>4. ActivatingIsSubject'
      BY <1>1 DEF ActivatingIsSubject
    <2>5. PlaceHolds'
      BY <2>1 DEF PlaceHolds, AtIdle
    <2> QED
      BY <1>2, <1>3, <2>2, <2>3, <2>4, <2>5
  <1>7. CASE parent # NoArtifact
    <2>1. /\ op' = "retire" /\ subject' = subject /\ parent' = parent
          /\ Replacing /\ held[parent] = NothingHeld
      BY <1>1, <1>7 DEF AtPublish
    <2>2. HeldIsTable'
      BY <2>1 DEF HeldIsTable, Owns
    <2>3. ActiveOwns'
      BY <1>1, <1>4, <1>5, <2>1 DEF ActiveOwns, AtPublish
    <2>4. ActivatingIsSubject'
      BY <1>1 DEF ActivatingIsSubject
    <2>5. AtRetire'
      BY <1>1, <2>1 DEF AtRetire, Replacing, BoundSources, Ports, NothingHeld
    <2>6. PlaceHolds'
      BY <1>1, <2>1, <2>5 DEF PlaceHolds
    <2> QED
      BY <1>2, <1>3, <2>2, <2>3, <2>4, <2>6
  <1> QED
    BY <1>6, <1>7

\* The owner of a word it releases finds the very word it remembers.
LEMMA ReleaseSourceOwnership ==
    ASSUME TypeOK, Ownership, NEW s \in Sources, ReleaseSource(s)
    PROVE  Ownership'
  <1> DEFINE w == ReleaseWord(word[s])
  <1> USE DEF TypeOK, Ownership
  <1>1. /\ op = "release"
        /\ subject \in Artifacts
        /\ AtRelease
        /\ s \in todo
    BY DEF ReleaseSource, PlaceHolds
  <1>2. Owns(subject, s) /\ subject # parent
    BY <1>1, NoArtifactAssumption DEF AtRelease
  <1>3. word[s] = held[subject][s]
    BY <1>1, <1>2 DEF HeldIsTable
  <1>4. /\ op' = "release"
        /\ word' = [word EXCEPT ![s] = w]
        /\ held' = [held EXCEPT ![subject] = [held[subject] EXCEPT ![s] = NoWord]]
        /\ todo' = todo \ {s}
        /\ UNCHANGED <<state, spec, subject, parent>>
    BY <1>3 DEF ReleaseSource, Continue, Working, Hold
  <1>5. w \in Words /\ ~w.bound
    BY ReleaseFacts
  <1> HIDE DEF w
  <1>6. \A b \in Artifacts, u \in Sources :
            (b = subject /\ u = s) \/ ~(u = s /\ Owns(b, u))
    BY <1>2 DEF Owns, OwnedBy
  <1>7. SpecsAreValid'
    BY <1>4 DEF SpecsAreValid, ValidSpecification
  <1>8. WordsAreRoutes'
    BY <1>1, <1>4, <1>5 DEF WordsAreRoutes, Routes, BoundSources, Ports
  <1>9. HeldIsTable'
    BY <1>1, <1>4, <1>5, <1>6 DEF HeldIsTable, Owns, OwnedBy
  <1>10. ActiveOwns'
    <2> SUFFICES ASSUME NEW a \in Artifacts, state[a] = "active", a # parent,
                        NEW u \in BoundSources(a)
                 PROVE  Owns(a, u)'
      BY <1>4 DEF ActiveOwns, OwnsAll, BoundSources, Ports
    <2>1. Owns(a, u) /\ u \in Sources
      BY ValidPorts DEF ActiveOwns, OwnsAll
    <2>2. a # subject
      BY <1>1 DEF AtRelease
    <2>3. u # s
      BY <2>1, <2>2, <1>6
    <2> QED
      BY <2>1, <2>3, <1>4 DEF Owns, OwnedBy
  <1>11. ActivatingIsSubject'
    BY <1>1, <1>4 DEF ActivatingIsSubject
  <1>12. AtRelease'
    BY <1>1, <1>2, <1>4, <1>5 DEF AtRelease, Owns, OwnedBy
  <1>13. PlaceHolds'
    BY <1>1, <1>4, <1>12 DEF PlaceHolds
  <1> QED
    BY <1>7, <1>8, <1>9, <1>10, <1>11, <1>13

LEMMA ReleaseDoneOwnership ==
    ASSUME TypeOK, Ownership, ReleaseDone
    PROVE  Ownership'
  <1> USE DEF TypeOK, Ownership, ReleaseDone, SetState, Done, Working
  <1>1. subject \in Artifacts /\ AtRelease
    BY DEF PlaceHolds
  <1>2. OwnsNothing(subject) /\ state[subject] # "absent" /\ parent = NoArtifact
    BY <1>1 DEF AtRelease, OwnsNothing
  <1>3. state'[subject] \in {"shadowing", "reopening", "dissolved"}
    BY <1>1
  <1>4. \A a \in Artifacts : a # subject => state'[a] = state[a]
    OBVIOUS
  <1>5. SpecsAreValid'
    BY <1>2, <1>4 DEF SpecsAreValid, ValidSpecification
  <1>6. WordsAreRoutes'
    BY <1>2, <1>4, WordFacts DEF OwnsNothing, Owns, WordsAreRoutes, Routes,
       OwnedBy, BoundSources, Ports
  <1>7. HeldIsTable'
    BY <1>1, <1>2 DEF HeldIsTable, Owns
  <1>8. ActiveOwns'
    BY <1>2, <1>3, <1>4 DEF ActiveOwns, OwnsAll, Owns, BoundSources, Ports
  <1>9. ActivatingIsSubject'
    BY <1>3, <1>4 DEF ActivatingIsSubject
  <1>10. PlaceHolds'
    BY DEF PlaceHolds, AtIdle
  <1> QED
    BY <1>5, <1>6, <1>7, <1>8, <1>9, <1>10

LEMMA WithdrawOwnership ==
    ASSUME TypeOK, Ownership, NEW a \in Artifacts, NEW outcome,
           Withdraw(a, outcome)
    PROVE  Ownership'
  <1> USE DEF TypeOK, Ownership, Withdraw, SetState, Working
  <1>1. parent = NoArtifact /\ parent' = NoArtifact
    BY DEF PlaceHolds, AtIdle
  <1>2. \A s \in Sources : s \in HeldSources(a) <=> Owns(a, s)
    BY <1>1, HeldIsOwned, NoArtifactAssumption
  <1>3. SpecsAreValid'
    BY DEF SpecsAreValid, ValidSpecification
  <1>4. WordsAreRoutes'
    BY WordFacts DEF WordsAreRoutes, Routes, OwnedBy, BoundSources, Ports
  <1>5. HeldIsTable'
    BY <1>1 DEF HeldIsTable, Owns
  <1>6. ActiveOwns'
    BY <1>1 DEF ActiveOwns, OwnsAll, Owns, BoundSources, Ports
  <1>7. ActivatingIsSubject'
    BY DEF ActivatingIsSubject
  <1>8. AtRelease'
    BY <1>1, <1>2 DEF AtRelease, Owns
  <1>9. PlaceHolds'
    BY <1>8 DEF PlaceHolds
  <1> QED
    BY <1>3, <1>4, <1>5, <1>6, <1>7, <1>9

LEMMA ReplaceActiveOwnership ==
    ASSUME TypeOK, Ownership, NEW p \in Artifacts, NEW a \in Artifacts,
           ReplaceActive(p, a)
    PROVE  Ownership'
  <1> USE DEF TypeOK, Ownership, ReplaceActive, SetState, Working
  <1>1. parent = NoArtifact /\ parent' = p /\ subject' = a
    BY DEF PlaceHolds, AtIdle
  <1>2. OwnsNothing(a)
    BY QuietOwnsNothing
  <1>3. OwnsAll(p)
    BY <1>1, NoArtifactAssumption DEF ActiveOwns
  <1>4. SpecsAreValid'
    BY DEF SpecsAreValid, ValidSpecification
  <1>5. WordsAreRoutes'
    BY DEF WordsAreRoutes, Routes, BoundSources, Ports
  <1>6. HeldIsTable'
    BY <1>1, <1>2, NoArtifactAssumption DEF HeldIsTable, Owns, OwnsNothing, NothingHeld
  <1>7. ActiveOwns'
    BY <1>1, NoArtifactAssumption DEF ActiveOwns, OwnsAll, Owns, BoundSources, Ports
  <1>8. ActivatingIsSubject'
    BY DEF ActivatingIsSubject
  <1>9. AtMove'
    BY <1>1, <1>3 DEF AtMove, Replacing, Compatible, OwnsAll, Owns, BoundSources, Ports
  <1>10. PlaceHolds'
    BY <1>9 DEF PlaceHolds
  <1> QED
    BY <1>4, <1>5, <1>6, <1>7, <1>8, <1>10

\* The word is the parent's, so the handoff is never abandoned.
LEMMA MoveSourceOwnership ==
    ASSUME TypeOK, Ownership, NEW s \in Sources, MoveSource(s)
    PROVE  Ownership'
  <1> DEFINE w == RebindWord(word[s], subject, Ports(subject)[s].slot)
  <1> USE DEF TypeOK, Ownership
  <1>1. /\ op = "move"
        /\ subject \in Artifacts
        /\ AtMove
        /\ s \in todo
    BY DEF MoveSource, PlaceHolds
  <1>2. Owns(parent, s)
    BY <1>1 DEF AtMove
  <1>3. /\ op' = "move"
        /\ word' = [word EXCEPT ![s] = w]
        /\ held' = [held EXCEPT ![subject] = [held[subject] EXCEPT ![s] = w]]
        /\ todo' = todo \ {s}
        /\ UNCHANGED <<state, spec, subject, parent>>
    BY <1>2 DEF MoveSource, Continue, Working, Hold, Owns
  <1>4. s \in BoundSources(subject) /\ Ports(subject)[s].slot \in Slots
    BY <1>1, ValidPorts DEF AtMove
  <1>5. /\ w \in Words
        /\ w.bound
        /\ w.artifact = subject
        /\ w.slot = Ports(subject)[s].slot
    BY <1>1, <1>4, RebindFacts
  <1>6. Routes(w, s, subject)
    BY <1>4, <1>5 DEF Routes, OwnedBy
  <1> HIDE DEF w
  <1>7. \A b \in Artifacts : Owns(b, s) <=> b = parent
    BY <1>1, <1>2 DEF Owns, OwnedBy, AtMove, Replacing
  <1>8. SpecsAreValid'
    BY <1>3 DEF SpecsAreValid, ValidSpecification
  <1>9. WordsAreRoutes'
    BY <1>1, <1>3, <1>5, <1>6, WordFacts
       DEF AtMove, WordsAreRoutes, Routes, OwnedBy, BoundSources, Ports
  <1>10. HeldIsTable'
    <2> SUFFICES ASSUME NEW a \in Artifacts, a # parent, NEW u \in Sources
                 PROVE  held'[a][u] = IF Owns(a, u)' THEN word'[u] ELSE NoWord
      BY <1>3 DEF HeldIsTable, Owns
    <2>1. held[a][u] = IF Owns(a, u) THEN word[u] ELSE NoWord
      BY DEF HeldIsTable
    <2>2. CASE u # s
      BY <2>1, <2>2, <1>3 DEF Owns
    <2>3. CASE u = s /\ a = subject
      BY <2>3, <1>3, <1>5 DEF Owns, OwnedBy
    <2>4. CASE u = s /\ a # subject
      BY <2>1, <2>4, <1>3, <1>5, <1>7 DEF Owns, OwnedBy
    <2> QED
      BY <2>2, <2>3, <2>4
  <1>11. ActiveOwns'
    <2> SUFFICES ASSUME NEW a \in Artifacts, state[a] = "active", a # parent,
                        NEW u \in BoundSources(a)
                 PROVE  Owns(a, u)'
      BY <1>3 DEF ActiveOwns, OwnsAll, BoundSources, Ports
    <2>1. Owns(a, u) /\ u \in Sources
      BY ValidPorts DEF ActiveOwns, OwnsAll
    <2>2. u # s
      BY <2>1, <1>7
    <2> QED
      BY <2>1, <2>2, <1>3 DEF Owns, OwnedBy
  <1>12. ActivatingIsSubject'
    BY <1>1, <1>3 DEF ActivatingIsSubject
  <1>13. AtMove'
    <2>1. Replacing'
      BY <1>1, <1>3 DEF AtMove, Replacing, BoundSources, Ports
    <2>2. \A u \in todo \ {s} : Owns(parent, u)'
      BY <1>1, <1>3 DEF AtMove, Owns
    <2>3. \A u \in BoundSources(subject) \ (todo \ {s}) : Owns(subject, u)'
      <3> SUFFICES ASSUME NEW u \in BoundSources(subject) \ (todo \ {s})
                   PROVE  Owns(subject, u)'
        OBVIOUS
      <3>1. u \in Sources
        BY <1>1, ValidPorts DEF AtMove
      <3>2. CASE u = s
        BY <3>2, <1>3, <1>5 DEF Owns, OwnedBy
      <3>3. CASE u # s
        BY <3>1, <3>3, <1>1, <1>3 DEF AtMove, Owns, OwnedBy
      <3> QED
        BY <3>2, <3>3
    <2> QED
      BY <1>1, <1>3, <2>1, <2>2, <2>3 DEF AtMove, BoundSources, Ports, Owns
  <1>14. PlaceHolds'
    BY <1>1, <1>3, <1>13 DEF PlaceHolds
  <1> QED
    BY <1>8, <1>9, <1>10, <1>11, <1>12, <1>14

LEMMA HandOffOwnership ==
    ASSUME TypeOK, Ownership, HandOff
    PROVE  Ownership'
  <1> USE DEF TypeOK, Ownership, HandOff, Continue, Working
  <1>1. subject \in Artifacts /\ AtMove /\ parent \in Artifacts
    BY DEF PlaceHolds, AtMove, Replacing
  <1>2. SpecsAreValid'
    BY DEF SpecsAreValid, ValidSpecification
  <1>3. WordsAreRoutes'
    BY DEF WordsAreRoutes, Routes, BoundSources, Ports
  <1>4. HeldIsTable'
    BY DEF HeldIsTable, Owns
  <1>5. ActiveOwns'
    BY DEF ActiveOwns, OwnsAll, Owns, BoundSources, Ports
  <1>6. ActivatingIsSubject'
    BY DEF ActivatingIsSubject
  <1>7. AtPublish'
    BY <1>1 DEF AtMove, Replacing, AtPublish, OwnsAll, Owns, BoundSources, Ports,
       NothingHeld
  <1>8. PlaceHolds'
    BY <1>1, <1>7 DEF PlaceHolds
  <1> QED
    BY <1>2, <1>3, <1>4, <1>5, <1>6, <1>8

\* By now every source of the parent is the child's.
LEMMA RetireParentOwnership ==
    ASSUME TypeOK, Ownership, RetireParent
    PROVE  Ownership'
  <1> USE DEF TypeOK, Ownership, RetireParent, SetState, Done, Working
  <1>1. subject \in Artifacts /\ AtRetire /\ parent \in Artifacts
    BY DEF PlaceHolds, AtRetire, Replacing
  <1>2. OwnsNothing(parent)
    <2> SUFFICES ASSUME NEW s \in Sources, Owns(parent, s)
                 PROVE  FALSE
      BY DEF OwnsNothing
    <2>1. s \in BoundSources(subject)
      BY <1>1 DEF WordsAreRoutes, Routes, Owns, OwnedBy, AtRetire, Replacing
    <2>2. Owns(subject, s)
      BY <1>1, <2>1 DEF ActiveOwns, OwnsAll, AtRetire, Replacing
    <2> QED
      BY <1>1, <2>2 DEF Owns, OwnedBy, AtRetire, Replacing
  <1>3. \A a \in Artifacts : a # parent => state'[a] = state[a]
    OBVIOUS
  <1>4. SpecsAreValid'
    BY <1>1, <1>3 DEF SpecsAreValid, ValidSpecification, AtRetire, Replacing
  <1>5. WordsAreRoutes'
    BY <1>1, <1>3, WordFacts DEF WordsAreRoutes, Routes, OwnedBy, BoundSources, Ports
  <1>6. HeldIsTable'
    BY <1>1, <1>2 DEF HeldIsTable, Owns, AtRetire, NothingHeld, OwnsNothing
  <1>7. ActiveOwns'
    BY <1>1 DEF ActiveOwns, OwnsAll, Owns, BoundSources, Ports
  <1>8. ActivatingIsSubject'
    BY DEF ActivatingIsSubject
  <1>9. PlaceHolds'
    BY DEF PlaceHolds, AtIdle
  <1> QED
    BY <1>4, <1>5, <1>6, <1>7, <1>8, <1>9

LEMMA RestartOwnership ==
    ASSUME TypeOK, Ownership, Restart
    PROVE  Ownership'
  <1> USE DEF TypeOK, Ownership, Restart, control
  <1>1. SpecsAreValid'
    BY DEF SpecsAreValid, ValidSpecification
  <1>2. WordsAreRoutes'
    BY DEF WordsAreRoutes, Routes, BoundSources, Ports
  <1>3. HeldIsTable'
    BY DEF HeldIsTable, RestoredHeld, Owns
  <1>4. ActiveOwns'
    BY DEF ActiveOwns, OwnsAll, Owns, BoundSources, Ports
  <1>5. ActivatingIsSubject'
    BY DEF ActivatingIsSubject
  <1>6. PlaceHolds'
    BY DEF PlaceHolds, AtIdle
  <1> QED
    BY <1>1, <1>2, <1>3, <1>4, <1>5, <1>6

\* Readers write nothing ownership speaks of.
LEMMA ReaderOwnership ==
    ASSUME Ownership, UNCHANGED <<word, state, spec, held, control>>
    PROVE  Ownership'
  BY DEF control, Ownership, SpecsAreValid, ValidSpecification, WordsAreRoutes,
     HeldIsTable, ActiveOwns, ActivatingIsSubject, PlaceHolds, AtIdle, AtShadow,
     AtBind, AtRelease, AtMove, AtPublish, AtRetire, Replacing, OwnsAll,
     OwnsNothing, Owns, Routes, BoundSources, Ports

LEMMA OwnershipStep ==
    ASSUME TypeOK, Ownership, [Next]_vars
    PROVE  Ownership'
  <1>1. ASSUME NEW a \in Artifacts, NEW sp \in Specs, Nominate(a, sp)
        PROVE  Ownership'
    BY <1>1, NominateOwnership
  <1>2. ASSUME NEW a \in Artifacts,
               MarkValidated(a) \/ MarkCompiled(a) \/ DissolveUnmapped(a) \/ Reject(a)
        PROVE  Ownership'
    <2>1. /\ op = "idle"
          /\ state[a] \in Rejectable
          /\ UNCHANGED <<word, spec, held, control>>
      BY <1>2 DEF MarkValidated, MarkCompiled, DissolveUnmapped, Reject,
         Transition, Rejectable
    <2>2. PICK value \in {"validated", "compiled", "dissolved", "rejected"} :
              SetState(a, value)
      BY <1>2 DEF MarkValidated, MarkCompiled, DissolveUnmapped, Reject, Transition
    <2>3. OwnsNothing(a)
      BY <2>1, QuietOwnsNothing DEF Rejectable, Ownership
    <2> QED
      BY <2>1, <2>2, <2>3, RestateOwnership DEF Rejectable
  <1>3. ASSUME NEW a \in Artifacts, BeginShadow(a)
        PROVE  Ownership'
    BY <1>3, BeginShadowOwnership
  <1>4. ASSUME NEW a \in Artifacts, Activate(a)
        PROVE  Ownership'
    BY <1>4, ActivateOwnership
  <1>5. ASSUME NEW a \in Artifacts, Reopen(a) \/ DissolveMapped(a)
        PROVE  Ownership'
    BY <1>5, WithdrawOwnership DEF Reopen, DissolveMapped
  <1>6. ASSUME NEW a \in Artifacts, NEW p \in Artifacts, ReplaceActive(p, a)
        PROVE  Ownership'
    BY <1>6, ReplaceActiveOwnership
  <1>7. StartMutator => Ownership'
    BY <1>1, <1>2, <1>3, <1>4, <1>5, <1>6 DEF StartMutator
  <1>8. ContinueMutator => Ownership'
    BY PublishShadowingOwnership, BindSourceOwnership, BindConflictOwnership,
       ReleaseSourceOwnership, MoveSourceOwnership, RotateLiveOwnership,
       PublishActiveOwnership, ReleaseDoneOwnership, HandOffOwnership,
       RetireParentOwnership
       DEF ContinueMutator
  <1>9. ASSUME NEW r \in Resolvers, Resolve(r)
        PROVE  Ownership'
    BY <1>9, ReaderOwnership DEF Resolve, CheckArtifact, LookupSource
  <1>10. ASSUME NEW k \in Recorders, Record(k)
         PROVE  Ownership'
    BY <1>10, ReaderOwnership
       DEF Record, BeginRecord, LoadAuditor, RecheckState, WriteSample, Recorded
  <1>11. CASE UNCHANGED vars
    BY <1>11, ReaderOwnership DEF vars
  <1> QED
    BY <1>7, <1>8, <1>9, <1>10, <1>11, RestartOwnership DEF Next

-----------------------------------------------------------------------------
(***************************************************************************)
(* Types, and what an audit window contains.                               *)
(***************************************************************************)
Windows == UNION {[1..n -> Sample] : n \in 0..WindowSize}

LEMMA EmptyWindow ==
    ASSUME NEW phase \in Phases
    PROVE  Generation(phase) \in AuditGeneration
  <1>1. << >> \in [1..0 -> Sample]
    OBVIOUS
  <1>2. 0 \in 0..WindowSize
    BY WindowAssumption
  <1> QED
    BY <1>1, <1>2 DEF Generation, AuditGeneration

\* record keeps the window's bound, and adds nothing but its own sample.
LEMMA RecordInWindow ==
    ASSUME NEW window \in Windows, NEW sample \in Sample
    PROVE  /\ RecordIn(window, sample) \in Windows
           /\ \A i \in DOMAIN RecordIn(window, sample) :
                 \/ RecordIn(window, sample)[i] = sample
                 \/ \E j \in DOMAIN window : RecordIn(window, sample)[i] = window[j]
  <1>1. PICK n \in 0..WindowSize : window \in [1..n -> Sample]
    BY DEF Windows
  <1>2. n \in Nat /\ window \in Seq(Sample) /\ Len(window) = n
    BY <1>1, WindowAssumption
  <1>3. CASE n < WindowSize
    <2>1. RecordIn(window, sample) = Append(window, sample)
      BY <1>2, <1>3 DEF RecordIn
    <2>2. /\ Append(window, sample) \in [1..(n + 1) -> Sample]
          /\ \A i \in 1..n : Append(window, sample)[i] = window[i]
          /\ Append(window, sample)[n + 1] = sample
      <3>1. /\ Append(window, sample) \in Seq(Sample)
            /\ Len(Append(window, sample)) = n + 1
            /\ \A i \in 1..n : Append(window, sample)[i] = window[i]
            /\ Append(window, sample)[n + 1] = sample
        BY <1>2, AppendProperties
      <3>2. Append(window, sample) \in [1..(n + 1) -> Sample]
        BY <3>1, LenProperties
      <3> QED
        BY <3>1, <3>2
    <2>3. n + 1 \in 0..WindowSize
      BY <1>2, <1>3, WindowAssumption
    <2>4. \A i \in 1..(n + 1) : i \in 1..n \/ i = n + 1
      BY <1>2
    <2>5. DOMAIN window = 1..n /\ DOMAIN Append(window, sample) = 1..(n + 1)
      BY <1>1, <2>2
    <2> QED
      BY <2>1, <2>2, <2>3, <2>4, <2>5 DEF Windows
  <1>4. CASE n = WindowSize
    <2>1. RecordIn(window, sample) = Append(Tail(window), sample)
      BY <1>2, <1>4, WindowAssumption DEF RecordIn
    <2>2. n > 0
      BY <1>4, WindowAssumption
    <2>3. /\ Tail(window) \in Seq(Sample)
          /\ Len(Tail(window)) = n - 1
          /\ \A i \in 1..(n - 1) : Tail(window)[i] = window[i + 1]
      BY <1>2, <2>2
    <2>4. /\ Append(Tail(window), sample) \in [1..n -> Sample]
          /\ \A i \in 1..(n - 1) :
                Append(Tail(window), sample)[i] = Tail(window)[i]
          /\ Append(Tail(window), sample)[n] = sample
      <3>1. (n - 1) + 1 = n
        BY <1>2
      <3>2. /\ Append(Tail(window), sample) \in Seq(Sample)
            /\ Len(Append(Tail(window), sample)) = n
            /\ \A i \in 1..(n - 1) :
                  Append(Tail(window), sample)[i] = Tail(window)[i]
            /\ Append(Tail(window), sample)[n] = sample
        BY <2>3, <3>1, AppendProperties
      <3>3. Append(Tail(window), sample) \in [1..n -> Sample]
        BY <3>2, LenProperties
      <3> QED
        BY <3>2, <3>3
    <2>5. \A i \in 1..n : i = n \/ (i \in 1..(n - 1) /\ i + 1 \in 1..n)
      BY <1>2, <2>2
    <2>6. DOMAIN window = 1..n /\ DOMAIN Append(Tail(window), sample) = 1..n
      BY <1>1, <2>4
    <2>7. \A i \in 1..n : \/ Append(Tail(window), sample)[i] = sample
                          \/ \E j \in 1..n : Append(Tail(window), sample)[i] = window[j]
      BY <2>3, <2>4, <2>5
    <2> QED
      BY <1>1, <2>1, <2>4, <2>6, <2>7 DEF Windows
  <1> QED
    BY <1>1, <1>2, <1>3, <1>4, WindowAssumption

\* restore rebuilds a window as long as the one captured, of the same phase.
LEMMA RestoredWindowType ==
    ASSUME NEW a \in Artifacts, auditor[a] \in AuditGeneration
    PROVE  /\ RestoredAuditor(a) \in AuditGeneration
           /\ RestoredAuditor(a).phase = auditor[a].phase
           /\ \A i \in DOMAIN RestoredAuditor(a).window :
                 RestoredAuditor(a).window[i].seen = auditor[a].phase
  <1> DEFINE snapshot == SnapshotOf(auditor[a].window)
             rebuilt == RestoredWindow(snapshot)
             phase == auditor[a].phase
             new == [i \in DOMAIN rebuilt |-> [mismatch |-> rebuilt[i].mismatch,
                                               seen |-> phase]]
  <1>1. phase \in Phases
    BY DEF AuditGeneration
  <1>2. PICK n \in 0..WindowSize : auditor[a].window \in [1..n -> Sample]
    BY DEF AuditGeneration
  <1>3. n \in Nat /\ snapshot.observed = n
    BY <1>2, WindowAssumption DEF SnapshotOf
  <1>4. rebuilt = [i \in 1..n |-> [mismatch |-> i <= snapshot.mismatches]]
    BY <1>3 DEF RestoredWindow
  <1> HIDE DEF snapshot, rebuilt
  <1>5. DOMAIN rebuilt = 1..n /\ \A i \in 1..n : rebuilt[i].mismatch \in BOOLEAN
    <2>1. DOMAIN rebuilt = 1..n
      BY <1>4
    <2>2. ASSUME NEW i \in 1..n
          PROVE  rebuilt[i].mismatch \in BOOLEAN
      <3> DEFINE early == i <= snapshot.mismatches
      <3>1. early \in BOOLEAN
        OBVIOUS
      <3>2. rebuilt[i] = [mismatch |-> early]
        BY <1>4
      <3> HIDE DEF early
      <3>3. [mismatch |-> early].mismatch = early
        BY Z3
      <3> QED
        BY <3>1, <3>2, <3>3
    <2> QED
      BY <2>1, <2>2
  <1>6. new \in [1..n -> Sample] /\ \A i \in 1..n : new[i].seen = phase
    BY <1>1, <1>5 DEF Sample
  <1>7. RestoredAuditor(a) = [phase |-> phase, window |-> new]
    BY DEF RestoredAuditor, rebuilt, snapshot
  <1> HIDE DEF new, phase
  <1>8. DOMAIN new = 1..n
    BY <1>6
  <1> QED
    BY <1>1, <1>2, <1>6, <1>7, <1>8 DEF AuditGeneration, phase

LEMMA RecorderFacts ==
    ASSUME NEW c \in RecorderStates
    PROVE  /\ c.pc \in {"idle", "load", "recheck", "write"}
           /\ c.pc = "idle" => c = Idle
           /\ c.pc # "idle" => /\ c.artifact \in Artifacts
                               /\ c.before \in {"shadowing", "active"}
           /\ c.pc \in {"recheck", "write"} => c.current \in BOOLEAN
  <1>1. CASE c = Idle
    BY <1>1 DEF Idle
  <1>2. CASE c \in [pc: {"load"}, artifact: Artifacts, before: {"shadowing", "active"}]
    BY <1>2
  <1>3. CASE c \in [pc: {"recheck", "write"}, artifact: Artifacts,
                    before: {"shadowing", "active"}, current: BOOLEAN]
    BY <1>3
  <1> QED
    BY <1>1, <1>2, <1>3 DEF RecorderStates

LEMMA ResolverFacts ==
    ASSUME NEW c \in ResolverStates
    PROVE  /\ c.pc \in {"idle", "check"}
           /\ c.pc = "check" =>
                 /\ c \in [pc: {"check"}, source: Sources, word: BoundWords,
                           live: BOOLEAN]
                 /\ c.source \in Sources
                 /\ c.word \in BoundWords
                 /\ c.word \in Words
                 /\ c.word.artifact \in Artifacts
                 /\ c.live \in BOOLEAN
  <1>1. CASE c = Idle
    BY <1>1 DEF Idle
  <1>2. CASE c \in [pc: {"check"}, source: Sources, word: BoundWords, live: BOOLEAN]
    BY <1>2 DEF BoundWords, Words
  <1> QED
    BY <1>1, <1>2 DEF ResolverStates

\* A recorder only ever loses its hold on the current window.
LEMMA RetiredFacts ==
    ASSUME NEW c \in RecorderStates, NEW a \in Artifacts
    PROVE  /\ Retired(c, a) \in RecorderStates
           /\ Retired(c, a).pc = c.pc
           /\ c.pc # "idle" => /\ Retired(c, a).artifact = c.artifact
                               /\ Retired(c, a).before = c.before
           /\ c.pc \in {"recheck", "write"} /\ Retired(c, a).current =>
                 c.current /\ c.artifact # a
  <1>1. CASE c.pc \in {"recheck", "write"} /\ c.artifact = a
    <2>1. Retired(c, a) = [pc |-> c.pc, artifact |-> a, before |-> c.before,
                           current |-> FALSE]
      BY <1>1 DEF Retired
    <2>2. /\ Retired(c, a).pc = c.pc
          /\ Retired(c, a).artifact = a
          /\ Retired(c, a).before = c.before
          /\ Retired(c, a).current = FALSE
      BY <2>1
    <2>3. Retired(c, a) \in [pc: {"recheck", "write"}, artifact: Artifacts,
                             before: {"shadowing", "active"}, current: BOOLEAN]
      BY <1>1, <2>1, RecorderFacts
    <2> QED
      BY <1>1, <2>2, <2>3 DEF RecorderStates
  <1>2. CASE ~(c.pc \in {"recheck", "write"} /\ c.artifact = a)
    <2>1. Retired(c, a) = c
      BY <1>2 DEF Retired
    <2> QED
      BY <1>2, <2>1
  <1> QED
    BY <1>1, <1>2

LEMMA RotateFacts ==
    ASSUME TypeOK, NEW a \in Artifacts, NEW phase \in Phases,
           RotateAuditor(a, phase)
    PROVE  /\ auditor' \in [Artifacts -> AuditGeneration]
           /\ recorder' \in [Recorders -> RecorderStates]
           /\ auditor'[a] = Generation(phase)
           /\ \A b \in Artifacts : b # a => auditor'[b] = auditor[b]
           /\ \A k \in Recorders : recorder'[k] = Retired(recorder[k], a)
  <1>1. Generation(phase) \in AuditGeneration
    BY EmptyWindow
  <1> QED
    BY <1>1, RetiredFacts DEF TypeOK, RotateAuditor

LEMMA WitnessFacts ==
    ASSUME TypeOK, NEW a \in Artifacts, Witness(a)
    PROVE  /\ resolver' \in [Resolvers -> ResolverStates]
           /\ \A r \in Resolvers :
                 LET c == resolver[r]
                 IN /\ c.pc # "check" => resolver'[r] = c
                    /\ c.pc = "check" =>
                          /\ resolver'[r].pc = "check"
                          /\ resolver'[r].source = c.source
                          /\ resolver'[r].word = c.word
                          /\ c.live => resolver'[r].live
                          /\ /\ Routes(c.word, c.source, a)
                             /\ Routes(word[c.source], c.source, a)
                             => resolver'[r].live
  <1> SUFFICES ASSUME NEW r \in Resolvers
               PROVE  LET c == resolver[r]
                      IN /\ resolver'[r] \in ResolverStates
                         /\ c.pc # "check" => resolver'[r] = c
                         /\ c.pc = "check" =>
                               /\ resolver'[r].pc = "check"
                               /\ resolver'[r].source = c.source
                               /\ resolver'[r].word = c.word
                               /\ c.live => resolver'[r].live
                               /\ /\ Routes(c.word, c.source, a)
                                  /\ Routes(word[c.source], c.source, a)
                                  => resolver'[r].live
    BY DEF Witness
  <1> DEFINE c == resolver[r]
  <1>1. c \in ResolverStates
    BY DEF TypeOK
  <1>2. CASE /\ c.pc = "check"
             /\ Routes(c.word, c.source, a)
             /\ Routes(word[c.source], c.source, a)
    <2>1. resolver'[r] = [c EXCEPT !.live = TRUE]
      BY <1>2 DEF Witness
    <2>2. c \in [pc: {"check"}, source: Sources, word: BoundWords, live: BOOLEAN]
      BY <1>1, <1>2, ResolverFacts
    <2>3. /\ resolver'[r] \in [pc: {"check"}, source: Sources, word: BoundWords,
                               live: BOOLEAN]
          /\ resolver'[r].pc = "check"
          /\ resolver'[r].source = c.source
          /\ resolver'[r].word = c.word
          /\ resolver'[r].live = TRUE
      BY <2>1, <2>2
    <2> QED
      BY <1>2, <2>3 DEF ResolverStates
  <1>3. CASE ~(/\ c.pc = "check"
               /\ Routes(c.word, c.source, a)
               /\ Routes(word[c.source], c.source, a))
    <2>1. resolver'[r] = c
      BY <1>3 DEF Witness
    <2> QED
      BY <1>1, <1>3, <2>1
  <1> QED
    BY <1>2, <1>3

LEMMA TypeStart ==
    ASSUME TypeOK, Ownership, StartMutator
    PROVE  TypeOK'
  <1> USE DEF TypeOK, States, Ops
  <1>1. ASSUME NEW a \in Artifacts, NEW sp \in Specs, Nominate(a, sp)
        PROVE  TypeOK'
    BY <1>1 DEF Nominate, SetState, control
  <1>2. ASSUME NEW a \in Artifacts,
               MarkValidated(a) \/ MarkCompiled(a) \/ DissolveUnmapped(a) \/ Reject(a)
        PROVE  TypeOK'
    BY <1>2 DEF MarkValidated, MarkCompiled, DissolveUnmapped, Reject,
       Transition, SetState, control
  <1>3. ASSUME NEW a \in Artifacts, BeginShadow(a)
        PROVE  TypeOK'
    <2>1. RotateAuditor(a, "shadowing")
      BY <1>3 DEF BeginShadow
    <2>2. /\ auditor' \in [Artifacts -> AuditGeneration]
          /\ recorder' \in [Recorders -> RecorderStates]
      BY <2>1, RotateFacts DEF Phases
    <2> QED
      BY <1>3, <2>2 DEF BeginShadow, Working
  <1>4. ASSUME NEW a \in Artifacts, Activate(a)
        PROVE  TypeOK'
    <2>1. BoundSources(a) \subseteq Sources
      BY <1>4, ValidPorts DEF Activate, Ownership
    <2> QED
      BY <1>4, <2>1 DEF Activate, SetState, Working, NothingHeld
  <1>5. ASSUME NEW a \in Artifacts, Reopen(a) \/ DissolveMapped(a)
        PROVE  TypeOK'
    BY <1>5 DEF Reopen, DissolveMapped, Withdraw, SetState, Working, HeldSources
  <1>6. ASSUME NEW a \in Artifacts, NEW p \in Artifacts, ReplaceActive(p, a)
        PROVE  TypeOK'
    <2>1. BoundSources(a) \subseteq Sources
      BY <1>6, ValidPorts DEF ReplaceActive, Ownership
    <2> QED
      BY <1>6, <2>1 DEF ReplaceActive, SetState, Working, NothingHeld
  <1> QED
    BY <1>1, <1>2, <1>3, <1>4, <1>5, <1>6 DEF StartMutator

LEMMA TypeContinue ==
    ASSUME TypeOK, Ownership, ContinueMutator
    PROVE  TypeOK'
  <1> USE DEF TypeOK, States, Ops
  <1>1. subject \in Artifacts
    BY DEF Ownership, PlaceHolds, ContinueMutator, PublishShadowing, BindSource,
       BindConflict, ReleaseSource, MoveSource, RotateLive, PublishActive,
       ReleaseDone, HandOff, RetireParent
  <1>2. CASE PublishShadowing
    BY <1>1, <1>2 DEF PublishShadowing, SetState, Done, Working
  <1>3. ASSUME NEW s \in Sources, BindSource(s)
        PROVE  TypeOK'
    <2>1. Ports(subject)[s].slot \in Slots
      BY <1>1, <1>3, ValidPorts DEF BindSource, Ownership, PlaceHolds, AtBind
    <2>2. BindWord(subject, Ports(subject)[s].slot, word[s].generation) \in Words
      BY <1>1, <2>1, BindFacts, WordFacts
    <2> QED
      BY <1>1, <1>3, <2>2 DEF BindSource, Hold, Continue, Working
  <1>4. ASSUME NEW s \in Sources, BindConflict(s)
        PROVE  TypeOK'
    BY <1>1, <1>4 DEF BindConflict, Continue, Working, HeldSources
  <1>5. ASSUME NEW s \in Sources, ReleaseSource(s)
        PROVE  TypeOK'
    <2>1. ReleaseWord(word[s]) \in Words
      BY ReleaseFacts
    <2>2. word' \in [Sources -> Words]
      BY <1>5, <2>1 DEF ReleaseSource
    <2>3. held' \in [Artifacts -> [Sources -> Words \cup {NoWord}]]
      <3>1. \/ held' = held
            \/ held' = [held EXCEPT ![subject] = [held[subject] EXCEPT ![s] = NoWord]]
        BY <1>5 DEF ReleaseSource, Hold
      <3>2. [held[subject] EXCEPT ![s] = NoWord] \in [Sources -> Words \cup {NoWord}]
        BY <1>1
      <3> QED
        BY <1>1, <3>1, <3>2
    <2> QED
      BY <1>1, <1>5, <2>2, <2>3 DEF ReleaseSource, Continue, Working
  <1>6. ASSUME NEW s \in Sources, MoveSource(s)
        PROVE  TypeOK'
    <2>1. AtMove /\ s \in todo
      BY <1>6 DEF MoveSource, Ownership, PlaceHolds
    <2>2. OwnedBy(word[s], parent)
      BY <2>1 DEF AtMove, Owns
    <2>3. Ports(subject)[s].slot \in Slots
      BY <1>1, <2>1, ValidPorts DEF Ownership, AtMove
    <2>4. RebindWord(word[s], subject, Ports(subject)[s].slot) \in Words
      BY <1>1, <2>3, RebindFacts
    <2>5. /\ word' \in [Sources -> Words]
          /\ held' \in [Artifacts -> [Sources -> Words \cup {NoWord}]]
          /\ Continue("move", todo \ {s})
          /\ UNCHANGED <<state, spec, auditor, resolver, recorder>>
      BY <1>1, <1>6, <2>2, <2>4 DEF MoveSource, Hold
    <2> QED
      BY <1>1, <2>5 DEF Continue, Working
  <1>7. CASE RotateLive
    <2>1. /\ auditor' \in [Artifacts -> AuditGeneration]
          /\ recorder' \in [Recorders -> RecorderStates]
      BY <1>1, <1>7, RotateFacts DEF RotateLive, Phases
    <2> QED
      BY <1>7, <2>1 DEF RotateLive, Continue, Working
  <1>8. CASE PublishActive
    <2>1. resolver' \in [Resolvers -> ResolverStates]
      BY <1>1, <1>8, WitnessFacts DEF PublishActive
    <2> QED
      BY <1>1, <1>8, <2>1 DEF PublishActive, SetState, Done, Continue, Working
  <1>9. CASE ReleaseDone
    BY <1>1, <1>9 DEF ReleaseDone, SetState, Done, Working
  <1>10. CASE HandOff
    <2>1. /\ auditor' \in [Artifacts -> AuditGeneration]
          /\ recorder' \in [Recorders -> RecorderStates]
      BY <1>1, <1>10, RotateFacts DEF HandOff, Phases
    <2> QED
      BY <1>10, <2>1 DEF HandOff, Continue, Working, NothingHeld
  <1>11. CASE RetireParent
    BY <1>11 DEF RetireParent, SetState, Done, Working
  <1> QED
    BY <1>2, <1>3, <1>4, <1>5, <1>6, <1>7, <1>8, <1>9, <1>10, <1>11
       DEF ContinueMutator

LEMMA TypeReaders ==
    ASSUME TypeOK, Ownership,
           (\E r \in Resolvers : Resolve(r)) \/ (\E k \in Recorders : Record(k))
    PROVE  TypeOK'
  <1> USE DEF TypeOK
  <1>1. ASSUME NEW r \in Resolvers, CheckArtifact(r)
        PROVE  TypeOK'
    BY <1>1 DEF CheckArtifact, ResolverStates, control
  <1>2. ASSUME NEW r \in Resolvers, NEW s \in Sources, LookupSource(r, s)
        PROVE  TypeOK'
    <2> DEFINE new == [pc |-> "check", source |-> s, word |-> word[s],
                       live |-> Live(word[s], s)]
    <2>1. word[s] \in BoundWords
      BY <1>2, WordFacts DEF LookupSource
    <2>2. Live(word[s], s) \in BOOLEAN
      BY DEF Live
    <2>3. new \in ResolverStates
      BY <2>1, <2>2 DEF ResolverStates
    <2> HIDE DEF new
    <2>4. resolver' = [resolver EXCEPT ![r] = new]
      BY <1>2 DEF LookupSource, new
    <2> QED
      BY <1>2, <2>3, <2>4 DEF LookupSource, control
  <1>3. ASSUME NEW k \in Recorders, NEW a \in Artifacts, BeginRecord(k, a)
        PROVE  TypeOK'
    <2>1. [pc |-> "load", artifact |-> a, before |-> state[a]] \in RecorderStates
      BY <1>3 DEF BeginRecord, RecorderStates
    <2> QED
      BY <1>3, <2>1 DEF BeginRecord, Recorded, control
  <1>4. ASSUME NEW k \in Recorders, LoadAuditor(k)
        PROVE  TypeOK'
    <2>1. [pc |-> "recheck", artifact |-> recorder[k].artifact,
           before |-> recorder[k].before, current |-> TRUE] \in RecorderStates
      BY <1>4, RecorderFacts DEF LoadAuditor, RecorderStates
    <2>2. Idle \in RecorderStates
      BY DEF RecorderStates
    <2> QED
      BY <1>4, <2>1, <2>2 DEF LoadAuditor, Recorded, control
  <1>5. ASSUME NEW k \in Recorders, RecheckState(k)
        PROVE  TypeOK'
    <2>1. [pc |-> "write", artifact |-> recorder[k].artifact,
           before |-> recorder[k].before, current |-> recorder[k].current]
             \in RecorderStates
      BY <1>5, RecorderFacts DEF RecheckState, RecorderStates
    <2>2. Idle \in RecorderStates
      BY DEF RecorderStates
    <2> QED
      BY <1>5, <2>1, <2>2 DEF RecheckState, Recorded, control
  <1>6. ASSUME NEW k \in Recorders, NEW mismatch \in BOOLEAN,
               WriteSample(k, mismatch)
        PROVE  TypeOK'
    <2> DEFINE c == recorder[k]
               sample == [mismatch |-> mismatch, seen |-> c.before]
               new == [phase |-> auditor[c.artifact].phase,
                       window |-> RecordIn(auditor[c.artifact].window, sample)]
    <2>1. /\ c.pc = "write"
          /\ c.artifact \in Artifacts
          /\ c.before \in Phases
      BY <1>6, RecorderFacts DEF WriteSample, Phases
    <2>2. sample \in Sample
      BY <2>1 DEF Sample
    <2>3. /\ auditor[c.artifact].phase \in Phases
          /\ auditor[c.artifact].window \in Windows
      BY <2>1 DEF AuditGeneration, Windows
    <2>4. new \in AuditGeneration
      BY <2>2, <2>3, RecordInWindow DEF AuditGeneration, Windows
    <2>5. auditor' = IF c.current THEN [auditor EXCEPT ![c.artifact] = new] ELSE auditor
      BY <1>6 DEF WriteSample
    <2> HIDE DEF new
    <2>6. auditor' \in [Artifacts -> AuditGeneration]
      BY <2>1, <2>4, <2>5
    <2>7. recorder' \in [Recorders -> RecorderStates]
      BY <1>6 DEF WriteSample, RecorderStates
    <2> QED
      BY <1>6, <2>6, <2>7 DEF WriteSample, Recorded, control
  <1> QED
    BY <1>1, <1>2, <1>3, <1>4, <1>5, <1>6 DEF Resolve, Record

LEMMA TypeStep ==
    ASSUME TypeOK, Ownership, [Next]_vars
    PROVE  TypeOK'
  <1>1. CASE Restart
    <2>1. held' \in [Artifacts -> [Sources -> Words \cup {NoWord}]]
      BY <1>1 DEF TypeOK, Restart, RestoredHeld
    <2>2. auditor' \in [Artifacts -> AuditGeneration]
      BY <1>1, RestoredWindowType DEF TypeOK, Restart
    <2>3. /\ resolver' \in [Resolvers -> ResolverStates]
          /\ recorder' \in [Recorders -> RecorderStates]
      BY <1>1 DEF Restart, ResolverStates, RecorderStates
    <2> QED
      BY <1>1, <2>1, <2>2, <2>3 DEF TypeOK, Restart, control
  <1>2. CASE UNCHANGED vars
    BY <1>2 DEF TypeOK, vars, control
  <1> QED
    BY <1>1, <1>2, TypeStart, TypeContinue, TypeReaders DEF Next

-----------------------------------------------------------------------------
(***************************************************************************)
(* The audits: what the current window's phase says, mutator by mutator.   *)
(***************************************************************************)
LEMMA PhaseStart ==
    ASSUME TypeOK, Ownership, PhaseMatches, StartMutator
    PROVE  PhaseMatches'
  <1> USE DEF TypeOK, PhaseMatches
  <1>1. ASSUME NEW a \in Artifacts, NEW sp \in Specs, Nominate(a, sp)
        PROVE  PhaseMatches'
    BY <1>1 DEF Nominate, SetState, control
  <1>2. ASSUME NEW a \in Artifacts,
               MarkValidated(a) \/ MarkCompiled(a) \/ DissolveUnmapped(a) \/ Reject(a)
        PROVE  PhaseMatches'
    BY <1>2 DEF MarkValidated, MarkCompiled, DissolveUnmapped, Reject,
       Transition, SetState, control
  <1>3. ASSUME NEW a \in Artifacts, BeginShadow(a)
        PROVE  PhaseMatches'
    <2>1. RotateAuditor(a, "shadowing")
      BY <1>3 DEF BeginShadow
    <2>2. /\ auditor'[a].phase = "shadowing"
          /\ \A b \in Artifacts : b # a => auditor'[b] = auditor[b]
      BY <2>1, RotateFacts DEF Phases, Generation
    <2> QED
      BY <1>3, <2>2 DEF BeginShadow, Working
  <1>4. ASSUME NEW a \in Artifacts, Activate(a)
        PROVE  PhaseMatches'
    BY <1>4 DEF Activate, SetState, Working
  <1>5. ASSUME NEW a \in Artifacts, Reopen(a) \/ DissolveMapped(a)
        PROVE  PhaseMatches'
    BY <1>5 DEF Reopen, DissolveMapped, Withdraw, SetState, Working
  <1>6. ASSUME NEW a \in Artifacts, NEW p \in Artifacts, ReplaceActive(p, a)
        PROVE  PhaseMatches'
    BY <1>6 DEF ReplaceActive, SetState, Working
  <1> QED
    BY <1>1, <1>2, <1>3, <1>4, <1>5, <1>6 DEF StartMutator

LEMMA PhaseContinue ==
    ASSUME TypeOK, Ownership, PhaseMatches, ContinueMutator
    PROVE  PhaseMatches'
  <1> USE DEF TypeOK, PhaseMatches
  <1>1. subject \in Artifacts
    BY DEF Ownership, PlaceHolds, ContinueMutator, PublishShadowing, BindSource,
       BindConflict, ReleaseSource, MoveSource, RotateLive, PublishActive,
       ReleaseDone, HandOff, RetireParent
  <1>2. CASE PublishShadowing
    BY <1>1, <1>2 DEF PublishShadowing, SetState, Done, Working
  <1>3. ASSUME NEW s \in Sources, BindSource(s) \/ BindConflict(s) \/ ReleaseSource(s)
        PROVE  PhaseMatches'
    <2>1. /\ op' \in {op, "release"}
          /\ op' = "release" => op \in {"bind", "release"}
          /\ UNCHANGED <<state, auditor, subject, goal>>
      BY <1>3 DEF BindSource, BindConflict, ReleaseSource, Continue, Working
    <2> QED
      BY <2>1
  <1>4. ASSUME NEW s \in Sources, MoveSource(s)
        PROVE  PhaseMatches'
    <2>1. OwnedBy(word[s], parent)
      BY <1>4 DEF MoveSource, Ownership, PlaceHolds, AtMove, Owns
    <2> QED
      BY <1>4, <2>1 DEF MoveSource, Continue, Working
  <1>5. CASE RotateLive \/ HandOff
    <2>1. RotateAuditor(subject, "active")
      BY <1>5 DEF RotateLive, HandOff
    <2>2. /\ auditor'[subject].phase = "active"
          /\ \A b \in Artifacts : b # subject => auditor'[b] = auditor[b]
      BY <1>1, <2>1, RotateFacts DEF Phases, Generation
    <2>3. state[subject] = "activating"
      BY <1>5 DEF RotateLive, HandOff, Ownership, PlaceHolds, AtBind, AtMove
    <2> QED
      BY <1>5, <2>2, <2>3 DEF RotateLive, HandOff, Continue, Working
  <1>6. CASE PublishActive
    BY <1>1, <1>6 DEF PublishActive, SetState, Done, Continue, Working
  <1>7. CASE ReleaseDone
    BY <1>1, <1>7 DEF ReleaseDone, SetState, Done, Working
  <1>8. CASE RetireParent
    BY <1>8 DEF RetireParent, SetState, Done, Working
  <1> QED
    BY <1>2, <1>3, <1>4, <1>5, <1>6, <1>7, <1>8 DEF ContinueMutator

\* Only a rotation, a recorder and a restart change what recorders rely on.
Observed == NoContamination /\ RecordersMatch

LEMMA RotateObserved ==
    ASSUME TypeOK, Observed, NEW a \in Artifacts, NEW phase \in Phases,
           RotateAuditor(a, phase)
    PROVE  Observed'
  <1>1. NoContamination'
    <2>1. Generation(phase).window = << >>
      BY DEF Generation
    <2>2. DOMAIN << >> = {}
      OBVIOUS
    <2>3. /\ auditor'[a].window = << >>
          /\ \A b \in Artifacts : b # a => auditor'[b] = auditor[b]
      BY <2>1, RotateFacts
    <2> QED
      BY <2>2, <2>3 DEF Observed, NoContamination
  <1>2. RecordersMatch'
    <2> SUFFICES ASSUME NEW k \in Recorders,
                        recorder'[k].pc \in {"recheck", "write"},
                        recorder'[k].current
                 PROVE  auditor'[recorder'[k].artifact].phase = recorder'[k].before
      BY DEF RecordersMatch
    <2>1. recorder[k] \in RecorderStates /\ recorder'[k] = Retired(recorder[k], a)
      BY RotateFacts DEF TypeOK
    <2>2. /\ recorder[k].pc \in {"recheck", "write"}
          /\ recorder[k].current
          /\ recorder[k].artifact # a
          /\ recorder'[k].artifact = recorder[k].artifact
          /\ recorder'[k].before = recorder[k].before
      BY <2>1, RetiredFacts
    <2>3. recorder[k].artifact \in Artifacts
      BY <2>1, <2>2, RecorderFacts
    <2>4. auditor[recorder[k].artifact].phase = recorder[k].before
      BY <2>2 DEF Observed, RecordersMatch
    <2> QED
      BY <2>2, <2>3, <2>4, RotateFacts
  <1> QED
    BY <1>1, <1>2 DEF Observed

LEMMA RecordObserved ==
    ASSUME TypeOK, Observed, NEW k \in Recorders, Record(k)
    PROVE  Observed'
  <1> USE DEF TypeOK, Observed
  <1>1. ASSUME NEW a \in Artifacts, BeginRecord(k, a)
        PROVE  Observed'
    BY <1>1 DEF BeginRecord, NoContamination, RecordersMatch
  <1>2. CASE LoadAuditor(k)
    <2>1. NoContamination'
      BY <1>2 DEF LoadAuditor, NoContamination
    <2>2. \/ recorder'[k] = Idle
          \/ /\ recorder'[k] = [pc |-> "recheck", artifact |-> recorder[k].artifact,
                                before |-> recorder[k].before, current |-> TRUE]
             /\ auditor[recorder[k].artifact].phase = recorder[k].before
      BY <1>2 DEF LoadAuditor
    <2>3. /\ UNCHANGED auditor
          /\ \A j \in Recorders : j # k => recorder'[j] = recorder[j]
      BY <1>2 DEF LoadAuditor
    <2>4. RecordersMatch'
      BY <2>2, <2>3 DEF RecordersMatch, Idle
    <2> QED
      BY <2>1, <2>4
  <1>3. CASE RecheckState(k)
    <2>1. NoContamination'
      BY <1>3 DEF RecheckState, NoContamination
    <2>2. \/ recorder'[k] = Idle
          \/ recorder'[k] = [pc |-> "write", artifact |-> recorder[k].artifact,
                             before |-> recorder[k].before,
                             current |-> recorder[k].current]
      BY <1>3 DEF RecheckState
    <2>3. /\ recorder[k].pc = "recheck"
          /\ UNCHANGED auditor
          /\ \A j \in Recorders : j # k => recorder'[j] = recorder[j]
      BY <1>3 DEF RecheckState
    <2>4. RecordersMatch'
      BY <2>2, <2>3 DEF RecordersMatch, Idle
    <2> QED
      BY <2>1, <2>4
  <1>4. ASSUME NEW mismatch \in BOOLEAN, WriteSample(k, mismatch)
        PROVE  Observed'
    <2> DEFINE c == recorder[k]
               old == auditor[c.artifact]
               sample == [mismatch |-> mismatch, seen |-> c.before]
               new == [phase |-> old.phase, window |-> RecordIn(old.window, sample)]
    <2>1. /\ c.pc = "write"
          /\ c.artifact \in Artifacts
          /\ c.before \in Phases
      BY <1>4, RecorderFacts DEF WriteSample, Phases
    <2>2. sample \in Sample /\ old.window \in Windows
      BY <2>1 DEF Sample, AuditGeneration, Windows
    <2>3. /\ auditor' = IF c.current THEN [auditor EXCEPT ![c.artifact] = new]
                                     ELSE auditor
          /\ recorder' = [recorder EXCEPT ![k] = Idle]
      BY <1>4 DEF WriteSample
    <2>4. \A a \in Artifacts : auditor'[a].phase = auditor[a].phase
      BY <2>1, <2>3
    <2>5. RecordersMatch'
      <3> SUFFICES ASSUME NEW j \in Recorders,
                          recorder'[j].pc \in {"recheck", "write"},
                          recorder'[j].current
                   PROVE  auditor'[recorder'[j].artifact].phase = recorder'[j].before
        BY DEF RecordersMatch
      <3>1. recorder'[j] = recorder[j] /\ recorder[j].artifact \in Artifacts
        BY <2>3, RecorderFacts DEF Idle
      <3> QED
        BY <2>4, <3>1 DEF RecordersMatch
    <2>6. CASE c.current
      <3>1. old.phase = c.before
        BY <2>1, <2>6 DEF RecordersMatch
      <3>2. \A i \in DOMAIN RecordIn(old.window, sample) :
                RecordIn(old.window, sample)[i].seen = old.phase
        <4>1. sample.seen = c.before
          OBVIOUS
        <4>2. \A j \in DOMAIN old.window : old.window[j].seen = old.phase
          BY <2>1 DEF NoContamination
        <4> HIDE DEF sample, old
        <4>3. \A i \in DOMAIN RecordIn(old.window, sample) :
                 \/ RecordIn(old.window, sample)[i] = sample
                 \/ \E j \in DOMAIN old.window :
                       RecordIn(old.window, sample)[i] = old.window[j]
          BY <2>2, RecordInWindow
        <4> QED
          BY <3>1, <4>1, <4>2, <4>3, Zenon
      <3>3. auditor'[c.artifact] = new
        BY <2>1, <2>3, <2>6
      <3>4. \A a \in Artifacts : a # c.artifact => auditor'[a] = auditor[a]
        BY <2>3
      <3>5. /\ new.phase = old.phase
            /\ new.window = RecordIn(old.window, sample)
        OBVIOUS
      <3> HIDE DEF new, sample, old
      <3>6. NoContamination'
        BY <3>2, <3>3, <3>4, <3>5 DEF NoContamination
      <3> QED
        BY <2>5, <3>6
    <2>7. CASE ~c.current
      BY <2>3, <2>5, <2>7 DEF NoContamination
    <2> QED
      BY <2>6, <2>7
  <1> QED
    BY <1>1, <1>2, <1>3, <1>4 DEF Record

LEMMA AuditStep ==
    ASSUME TypeOK, Ownership, PhaseMatches, Observed, [Next]_vars
    PROVE  PhaseMatches' /\ Observed'
  <1>1. CASE StartMutator
    <2>1. PhaseMatches'
      BY <1>1, PhaseStart
    <2>2. ASSUME NEW a \in Artifacts, BeginShadow(a)
          PROVE  Observed'
      BY <2>2, RotateObserved DEF BeginShadow, Phases
    <2>3. \/ \E a \in Artifacts : BeginShadow(a)
          \/ UNCHANGED <<auditor, recorder>>
      BY <1>1 DEF StartMutator, Nominate, MarkValidated, MarkCompiled,
         DissolveUnmapped, Reject, Transition, Activate, Reopen, DissolveMapped,
         Withdraw, ReplaceActive
    <2> QED
      BY <2>1, <2>2, <2>3 DEF Observed, NoContamination, RecordersMatch
  <1>2. CASE ContinueMutator
    <2>1. PhaseMatches'
      BY <1>2, PhaseContinue
    <2>2. CASE RotateLive \/ HandOff
      <3>1. RotateAuditor(subject, "active")
        BY <2>2 DEF RotateLive, HandOff
      <3>2. subject \in Artifacts
        BY <2>2 DEF RotateLive, HandOff, Ownership, PlaceHolds
      <3> QED
        BY <2>1, <3>1, <3>2, RotateObserved DEF Phases
    <2>3. RotateLive \/ HandOff \/ UNCHANGED <<auditor, recorder>>
      BY <1>2 DEF ContinueMutator, PublishShadowing, BindSource, BindConflict,
         ReleaseSource, MoveSource, PublishActive, ReleaseDone, RetireParent
    <2> QED
      BY <2>1, <2>2, <2>3 DEF Observed, NoContamination, RecordersMatch
  <1>3. ASSUME NEW r \in Resolvers, Resolve(r)
        PROVE  PhaseMatches' /\ Observed'
    BY <1>3 DEF Resolve, CheckArtifact, LookupSource, control, PhaseMatches,
       Observed, NoContamination, RecordersMatch
  <1>4. ASSUME NEW k \in Recorders, Record(k)
        PROVE  PhaseMatches' /\ Observed'
    <2>1. Observed'
      BY <1>4, RecordObserved
    <2>2. UNCHANGED <<state, control>>
      BY <1>4 DEF Record, BeginRecord, LoadAuditor, RecheckState, WriteSample,
         Recorded
    <2>3. \A a \in Artifacts : auditor'[a].phase = auditor[a].phase
      <3>1. CASE UNCHANGED auditor
        BY <3>1
      <3>2. ASSUME NEW mismatch \in BOOLEAN, WriteSample(k, mismatch)
            PROVE  \A a \in Artifacts : auditor'[a].phase = auditor[a].phase
        BY <3>2, RecorderFacts DEF TypeOK, WriteSample
      <3> QED
        BY <1>4, <3>1, <3>2 DEF Record, BeginRecord, LoadAuditor, RecheckState
    <2>4. op # "idle" => subject \in Artifacts
      BY DEF Ownership, PlaceHolds
    <2> QED
      BY <2>1, <2>2, <2>3, <2>4 DEF PhaseMatches, control
  <1>5. CASE Restart
    <2>1. /\ op = "idle"
          /\ UNCHANGED <<state, control>>
          /\ \A a \in Artifacts : auditor'[a] = RestoredAuditor(a)
          /\ \A k \in Recorders : recorder'[k] = Idle
      BY <1>5 DEF Restart
    <2>2. PhaseMatches'
      BY <2>1, RestoredWindowType DEF PhaseMatches, TypeOK, control
    <2>3. NoContamination'
      BY <2>1, RestoredWindowType DEF NoContamination, TypeOK
    <2>4. RecordersMatch'
      BY <2>1 DEF RecordersMatch, Idle
    <2> QED
      BY <2>2, <2>3, <2>4 DEF Observed
  <1>6. CASE UNCHANGED vars
    BY <1>6 DEF vars, control, PhaseMatches, Observed, NoContamination,
       RecordersMatch
  <1> QED
    BY <1>1, <1>2, <1>3, <1>4, <1>5, <1>6 DEF Next

-----------------------------------------------------------------------------
(***************************************************************************)
(* Resolvers.                                                              *)
(***************************************************************************)

\* Steps that make nothing active and respecify nothing leave resolvers right.
LEMMA ResolverFrame ==
    ASSUME TypeOK, ResolversMatch, UNCHANGED resolver,
           \A a \in Artifacts : state[a] # "absent" =>
               state'[a] # "absent" /\ spec'[a] = spec[a],
           \A a \in Artifacts : state'[a] = "active" => state[a] = "active"
    PROVE  ResolversMatch'
  <1> SUFFICES ASSUME NEW r \in Resolvers, resolver[r].pc = "check"
               PROVE  LET c == resolver[r]
                      IN /\ state'[c.word.artifact] # "absent"
                         /\ Routes(c.word, c.source, c.word.artifact)'
                         /\ state'[c.word.artifact] = "active" => c.live
    BY DEF ResolversMatch
  <1>1. resolver[r].word.artifact \in Artifacts
    BY ResolverFacts DEF TypeOK
  <1> QED
    BY <1>1 DEF ResolversMatch, Routes, OwnedBy, BoundSources, Ports

\* The stores of a mutator, but for PublishActive, are such steps.
LEMMA MutatorFrame ==
    ASSUME TypeOK, Ownership, StartMutator \/ (ContinueMutator /\ ~PublishActive)
    PROVE  /\ UNCHANGED resolver
           /\ \A a \in Artifacts : state[a] # "absent" =>
                 state'[a] # "absent" /\ spec'[a] = spec[a]
           /\ \A a \in Artifacts : state'[a] = "active" => state[a] = "active"
  <1>1. CASE StartMutator
    BY <1>1 DEF TypeOK, StartMutator, Nominate, MarkValidated, MarkCompiled,
       DissolveUnmapped, Reject, Transition, BeginShadow, Activate, Reopen,
       DissolveMapped, Withdraw, ReplaceActive, SetState
  <1>2. CASE ContinueMutator /\ ~PublishActive
    <2>1. CASE PublishShadowing
      BY <2>1 DEF TypeOK, PublishShadowing, SetState
    <2>2. CASE ReleaseDone
      BY <2>2 DEF TypeOK, ReleaseDone, SetState
    <2>3. CASE RetireParent
      BY <2>3 DEF TypeOK, RetireParent, SetState
    <2>4. CASE RotateLive \/ HandOff
      BY <2>4 DEF RotateLive, HandOff
    <2>5. ASSUME NEW s \in Sources, BindSource(s) \/ BindConflict(s) \/ ReleaseSource(s)
          PROVE  UNCHANGED <<resolver, state, spec>>
      BY <2>5 DEF BindSource, BindConflict, ReleaseSource
    <2>6. ASSUME NEW s \in Sources, MoveSource(s)
          PROVE  UNCHANGED <<resolver, state, spec>>
      <3>1. OwnedBy(word[s], parent)
        BY <2>6 DEF MoveSource, Ownership, PlaceHolds, AtMove, Owns
      <3> QED
        BY <2>6, <3>1 DEF MoveSource
    <2> QED
      BY <1>2, <2>1, <2>2, <2>3, <2>4, <2>5, <2>6 DEF ContinueMutator
  <1> QED
    BY <1>1, <1>2

\* The instant an artifact becomes active, it owns every route a resolver holds.
LEMMA PublishActiveResolvers ==
    ASSUME TypeOK, Ownership, ResolversMatch, PublishActive
    PROVE  ResolversMatch'
  <1>1. /\ subject \in Artifacts
        /\ AtPublish
        /\ SetState(subject, "active")
        /\ Witness(subject)
        /\ UNCHANGED <<word, spec>>
    BY DEF PublishActive, Ownership, PlaceHolds
  <1>2. /\ state'[subject] = "active"
        /\ \A a \in Artifacts : a # subject => state'[a] = state[a]
    BY <1>1 DEF TypeOK, SetState
  <1> SUFFICES ASSUME NEW r \in Resolvers, resolver'[r].pc = "check"
               PROVE  (/\ state[resolver[r].word.artifact] # "absent"
                       /\ Routes(resolver[r].word, resolver[r].source,
                                 resolver[r].word.artifact)
                       /\ state[resolver[r].word.artifact] = "active" =>
                             resolver[r].live)'
    BY DEF ResolversMatch
  <1> DEFINE c == resolver[r]
  <1>3. /\ c.pc = "check"
        /\ resolver'[r].source = c.source
        /\ resolver'[r].word = c.word
        /\ c.live => resolver'[r].live
        /\ /\ Routes(c.word, c.source, subject)
           /\ Routes(word[c.source], c.source, subject)
           => resolver'[r].live
    BY <1>1, WitnessFacts DEF TypeOK
  <1>4. c.word.artifact \in Artifacts /\ c.source \in Sources
    BY <1>3, ResolverFacts DEF TypeOK
  <1>5. /\ state[c.word.artifact] # "absent"
        /\ Routes(c.word, c.source, c.word.artifact)
        /\ state[c.word.artifact] = "active" => c.live
    BY <1>3 DEF ResolversMatch
  <1>6. CASE c.word.artifact = subject
    <2>1. Owns(subject, c.source)
      BY <1>1, <1>5, <1>6 DEF AtPublish, OwnsAll, Routes
    <2>2. Routes(word[c.source], c.source, subject)
      BY <1>4, <2>1 DEF Ownership, WordsAreRoutes, Owns, OwnedBy
    <2> QED
      BY <1>1, <1>2, <1>3, <1>5, <1>6, <2>2 DEF Routes, BoundSources, Ports
  <1>7. CASE c.word.artifact # subject
    BY <1>1, <1>2, <1>3, <1>4, <1>5, <1>7 DEF Routes, BoundSources, Ports
  <1> QED
    BY <1>6, <1>7

LEMMA ResolverStep ==
    ASSUME TypeOK, Ownership, ResolversMatch, [Next]_vars
    PROVE  ResolversMatch'
  <1>1. CASE StartMutator \/ (ContinueMutator /\ ~PublishActive)
    BY <1>1, MutatorFrame, ResolverFrame
  <1>2. CASE PublishActive
    BY <1>2, PublishActiveResolvers
  <1>3. ASSUME NEW r \in Resolvers, CheckArtifact(r)
        PROVE  ResolversMatch'
    BY <1>3 DEF CheckArtifact, TypeOK, ResolversMatch, Idle, Routes,
       BoundSources, Ports
  <1>4. ASSUME NEW r \in Resolvers, NEW s \in Sources, LookupSource(r, s)
        PROVE  ResolversMatch'
    <2> DEFINE live == Live(word[s], s)
    <2>1. /\ word[s].bound
          /\ UNCHANGED <<state, spec>>
          /\ resolver'[r] = [pc |-> "check", source |-> s, word |-> word[s],
                             live |-> live]
          /\ \A q \in Resolvers : q # r => resolver'[q] = resolver[q]
      BY <1>4 DEF TypeOK, LookupSource
    <2>2. /\ state[word[s].artifact] # "absent"
          /\ Routes(word[s], s, word[s].artifact)
          /\ state[word[s].artifact] = "active" => live
      BY <2>1 DEF Ownership, WordsAreRoutes, Live
    <2> HIDE DEF live
    <2>3. /\ resolver'[r].source = s
          /\ resolver'[r].word = word[s]
          /\ resolver'[r].live = live
      BY <2>1
    <2> QED
      BY <2>1, <2>2, <2>3 DEF ResolversMatch, Routes, BoundSources, Ports
  <1>5. ASSUME NEW k \in Recorders, Record(k)
        PROVE  ResolversMatch'
    BY <1>5, ResolverFrame DEF Record, BeginRecord, LoadAuditor, RecheckState,
       WriteSample, Recorded
  <1>6. CASE Restart
    BY <1>6 DEF Restart, ResolversMatch, Idle
  <1>7. CASE UNCHANGED vars
    BY <1>7, ResolverFrame DEF vars
  <1> QED
    BY <1>1, <1>2, <1>3, <1>4, <1>5, <1>6, <1>7 DEF Next, Resolve

-----------------------------------------------------------------------------
(***************************************************************************)
(* The inductive invariant.                                                *)
(***************************************************************************)
LEMMA InitInvariant == Init => IInv
  <1> SUFFICES ASSUME Init PROVE IInv
    OBVIOUS
  <1> USE DEF Init
  <1>1. TypeOK
    <2>1. Unbound(0) \in Words
      BY GenerationAssumption DEF Unbound, Words, UnboundWords, Generations
    <2>2. Generation("nominated") \in AuditGeneration
      BY EmptyWindow DEF Phases
    <2>3. Idle \in ResolverStates /\ Idle \in RecorderStates
      BY DEF ResolverStates, RecorderStates
    <2> QED
      BY <2>1, <2>2, <2>3 DEF TypeOK, States, Ops, NothingHeld
  <1>2. \A s \in Sources : ~word[s].bound
    BY DEF Unbound
  <1>3. Ownership
    BY <1>2 DEF Ownership, SpecsAreValid, WordsAreRoutes, HeldIsTable, ActiveOwns,
       ActivatingIsSubject, PlaceHolds, AtIdle, Owns, OwnedBy, NothingHeld
  <1>4. PhaseMatches
    BY DEF PhaseMatches
  <1>5. NoContamination
    <2>1. Generation("nominated").window = << >> /\ DOMAIN << >> = {}
      BY DEF Generation
    <2> QED
      BY <2>1 DEF NoContamination
  <1>6. RecordersMatch /\ ResolversMatch
    BY DEF RecordersMatch, ResolversMatch, Idle
  <1> QED
    BY <1>1, <1>3, <1>4, <1>5, <1>6 DEF IInv

LEMMA NextInvariant == IInv /\ [Next]_vars => IInv'
  <1> SUFFICES ASSUME IInv, [Next]_vars PROVE IInv'
    OBVIOUS
  <1>1. TypeOK'
    BY TypeStep DEF IInv
  <1>2. Ownership'
    BY OwnershipStep DEF IInv
  <1>3. PhaseMatches' /\ Observed'
    BY AuditStep DEF IInv, Observed
  <1>4. ResolversMatch'
    BY ResolverStep DEF IInv
  <1> QED
    BY <1>1, <1>2, <1>3, <1>4 DEF IInv, Observed

THEOREM RegistryInvariant == Spec => []IInv
  BY InitInvariant, NextInvariant, PTL DEF Spec

-----------------------------------------------------------------------------
\* Every variable of the registry keeps its type.
THEOREM RegistryTypeCorrect == Spec => []TypeOK
  <1>1. IInv => TypeOK
    BY DEF IInv
  <1> QED
    BY <1>1, RegistryInvariant, PTL

(***************************************************************************)
(* An active artifact owns every source it declares: the non-active state  *)
(* is stored before the first word is released, the active one after the   *)
(* last word is bound, whoever holds the mutex in between.                 *)
(***************************************************************************)
THEOREM ActiveRoutes == Spec => []ActiveOwnsSources
  <1>1. IInv => ActiveOwnsSources
    <2> SUFFICES ASSUME IInv, NEW a \in Artifacts, state[a] = "active", a # parent,
                        NEW s \in BoundSources(a)
                 PROVE  Routes(word[s], s, a)
      BY DEF ActiveOwnsSources, BeingReplaced
    <2>1. Owns(a, s) /\ s \in Sources
      BY ValidPorts DEF IInv, Ownership, ActiveOwns, OwnsAll
    <2> QED
      BY <2>1 DEF IInv, Ownership, WordsAreRoutes, Owns, OwnedBy
  <1> QED
    BY <1>1, RegistryInvariant, PTL

(***************************************************************************)
(* active_mappings and the mapping table agree, generation included, on    *)
(* every artifact that is not being replaced.                              *)
(***************************************************************************)
THEOREM HeldIsExact == Spec => []HeldMirrorsTable
  <1>1. IInv => HeldMirrorsTable
    BY DEF IInv, Ownership, HeldIsTable, WordsAreRoutes, HeldMirrorsTable,
       BeingReplaced, Owns, OwnedBy
  <1> QED
    BY <1>1, RegistryInvariant, PTL

\* The handoff of replace_active never meets a word that left the parent.
THEOREM HandoffNeverFails == Spec => []ReplaceMeetsParentWords
  <1>1. IInv => ReplaceMeetsParentWords
    BY DEF IInv, TypeOK, Ownership, PlaceHolds, AtMove, Owns, ReplaceMeetsParentWords
  <1> QED
    BY <1>1, RegistryInvariant, PTL

\* Two artifacts are active on one source only while one replaces the other.
THEOREM ExclusiveRoutes == Spec => []OneActivePerSource
  <1>1. IInv => OneActivePerSource
    <2> SUFFICES ASSUME IInv, NEW a \in Artifacts, NEW b \in Artifacts, a # b,
                        state[a] = "active", state[b] = "active",
                        NEW s \in BoundSources(a), s \in BoundSources(b)
                 PROVE  op = "retire" /\ {a, b} = {subject, parent}
      BY DEF OneActivePerSource
    <2>1. s \in Sources
      BY ValidPorts DEF IInv, Ownership
    <2>2. ASSUME a # parent, b # parent
          PROVE  FALSE
      <3>1. Owns(a, s) /\ Owns(b, s)
        BY <2>2 DEF IInv, Ownership, ActiveOwns, OwnsAll
      <3> QED
        BY <3>1 DEF Owns, OwnedBy
    <2>3. ASSUME NEW p \in Artifacts, NEW c \in Artifacts, p = parent, c # p,
                 state[p] = "active", state[c] = "active",
                 s \in BoundSources(p), s \in BoundSources(c)
          PROVE  op = "retire" /\ c = subject
      <3>1. Owns(c, s)
        BY <2>3 DEF IInv, Ownership, ActiveOwns, OwnsAll
      <3>2. op \in {"move", "publish", "retire"} /\ Replacing
        BY <2>3, NoArtifactAssumption DEF IInv, TypeOK, Ops, Ownership, PlaceHolds, AtIdle,
           AtShadow, AtBind, AtRelease, AtMove, AtPublish, AtRetire
      <3>3. s \in BoundSources(subject)
        BY <2>3, <3>2 DEF Replacing
      <3>4. CASE op = "move"
        BY <2>1, <2>3, <3>1, <3>3, <3>4
           DEF IInv, Ownership, PlaceHolds, AtMove, Owns, OwnedBy
      <3>5. CASE op = "publish"
        BY <2>1, <2>3, <3>1, <3>3, <3>5
           DEF IInv, Ownership, PlaceHolds, AtPublish, OwnsAll, Owns, OwnedBy
      <3>6. CASE op = "retire"
        <4>1. Owns(subject, s)
          BY <3>3, <3>6 DEF IInv, Ownership, PlaceHolds, AtRetire, Replacing,
             ActiveOwns, OwnsAll
        <4> QED
          BY <3>1, <3>6, <4>1 DEF Owns, OwnedBy
      <3> QED
        BY <3>2, <3>4, <3>5, <3>6
    <2> QED
      BY <2>2, <2>3
  <1> QED
    BY <1>1, RegistryInvariant, PTL

(***************************************************************************)
(* No audit window ever holds a sample of another phase.                   *)
(***************************************************************************)
THEOREM AuditsStayClean == Spec => []NoContamination
  <1>1. IInv => NoContamination
    BY DEF IInv
  <1> QED
    BY <1>1, RegistryInvariant, PTL

(***************************************************************************)
(* A resolve() that is about to succeed returns a route that existed at    *)
(* one instant of the call.                                                *)
(***************************************************************************)
THEOREM ResolvesAreLinear == Spec => []ResolveSawLiveRoute
  <1>1. IInv => ResolveSawLiveRoute
    BY DEF IInv, ResolversMatch, ResolveSawLiveRoute, Resolves
  <1> QED
    BY <1>1, RegistryInvariant, PTL

(***************************************************************************)
(* Between two mutators the checkpoint of the registry passes restore()'s  *)
(* validation and restores the very active_mappings it was taken from.     *)
(***************************************************************************)
THEOREM CheckpointsRestore == Spec => []CheckpointIsFaithful
  <1>1. IInv => CheckpointIsFaithful
    <2> SUFFICES ASSUME IInv, op = "idle" PROVE CheckpointRestores
                    /\ \A a \in Artifacts : RestoredHeld(a) = held[a]
      BY DEF CheckpointIsFaithful
    <2>1. parent = NoArtifact
      BY DEF IInv, Ownership, PlaceHolds, AtIdle
    <2>2. \A a \in Artifacts : ArtifactRestorable(a)
      BY DEF IInv, TypeOK, AuditGeneration, Ownership, ActivatingIsSubject,
         PhaseMatches, ArtifactRestorable
    <2>3. \A s \in Sources : WordRestorable(word[s], s)
      BY WordFacts DEF IInv, TypeOK, Ownership, WordsAreRoutes, ActivatingIsSubject,
         WordRestorable
    <2>4. ASSUME NEW a \in Artifacts
          PROVE  RestoredHeld(a) = held[a]
      <3>1. held[a] \in [Sources -> Words \cup {NoWord}]
        BY DEF IInv, TypeOK
      <3>2. \A s \in Sources : held[a][s] = RestoredHeld(a)[s]
        BY <2>1, NoArtifactAssumption
           DEF IInv, Ownership, HeldIsTable, RestoredHeld, Owns
      <3> QED
        BY <3>1, <3>2 DEF RestoredHeld
    <2>5. ASSUME NEW a \in Artifacts, state[a] = "active"
          PROVE  {s \in Sources : RestoredHeld(a)[s] # NoWord} = BoundSources(a)
      <3>1. \A s \in Sources : RestoredHeld(a)[s] # NoWord <=> Owns(a, s)
        BY WordFacts DEF IInv, TypeOK, RestoredHeld, Owns, OwnedBy
      <3>2. \A s \in Sources : Owns(a, s) => s \in BoundSources(a)
        BY DEF IInv, Ownership, WordsAreRoutes, Routes, Owns, OwnedBy
      <3>3. /\ BoundSources(a) \subseteq Sources
            /\ \A s \in BoundSources(a) : Owns(a, s)
        BY <2>1, <2>5, ValidPorts, NoArtifactAssumption
           DEF IInv, Ownership, ActiveOwns, OwnsAll
      <3> QED
        BY <3>1, <3>2, <3>3
    <2> QED
      BY <2>2, <2>3, <2>4, <2>5 DEF CheckpointRestores
  <1> QED
    BY <1>1, RegistryInvariant, PTL
-----------------------------------------------------------------------------
routes == [s \in Sources |-> EffectiveRoute(s)]

IsActive(a) == state[a] = "active"

\* The route of a source, from its word and its owner's state.
LEMMA RouteOf ==
    ASSUME NEW s \in Sources
    PROVE  /\ word[s].bound /\ IsActive(word[s].artifact) =>
                routes[s] = Routing!Route(word[s].artifact, word[s].slot)
           /\ ~(word[s].bound /\ IsActive(word[s].artifact)) =>
                routes[s] = Routing!NoRoute
  BY DEF routes, EffectiveRoute, IsActive, Routing!Route, Routing!NoRoute

LEMMA RouteFields ==
    ASSUME NEW a, NEW slot
    PROVE  /\ Routing!Route(a, slot).routed = TRUE
           /\ Routing!Route(a, slot).artifact = a
           /\ Routing!NoRoute.routed = FALSE
           /\ Routing!Route(a, slot) # Routing!NoRoute
  <1>1. /\ Routing!Route(a, slot).routed = TRUE
        /\ Routing!Route(a, slot).artifact = a
        /\ Routing!NoRoute.routed = FALSE
    BY DEF Routing!Route, Routing!NoRoute
  <1> QED
    BY <1>1

\* The sources routed to an artifact: those it owns while it is active.
LEMMA RoutedSources ==
    ASSUME TypeOK, NEW a \in Artifacts
    PROVE  Routing!RoutedTo(a) = {s \in Sources : Owns(a, s) /\ IsActive(a)}
  <1> SUFFICES ASSUME NEW s \in Sources
               PROVE  routes[s].routed /\ routes[s].artifact = a
                         <=> Owns(a, s) /\ IsActive(a)
    BY DEF Routing!RoutedTo, routes
  <1>1. CASE word[s].bound /\ IsActive(word[s].artifact)
    <2>1. routes[s].routed = TRUE /\ routes[s].artifact = word[s].artifact
      <3> DEFINE b == word[s].artifact
                 slot == word[s].slot
      <3>1. routes[s] = Routing!Route(b, slot)
        BY <1>1, RouteOf
      <3> HIDE DEF b, slot
      <3>2. Routing!Route(b, slot).routed = TRUE /\ Routing!Route(b, slot).artifact = b
        BY RouteFields
      <3> QED
        BY <3>1, <3>2 DEF b
    <2> QED
      BY <1>1, <2>1 DEF Owns, OwnedBy, IsActive
  <1>2. CASE ~(word[s].bound /\ IsActive(word[s].artifact))
    <2>1. routes[s].routed = FALSE
      BY <1>2, RouteOf, RouteFields
    <2> QED
      BY <1>2, <2>1 DEF Owns, OwnedBy, IsActive
  <1> QED
    BY <1>1, <1>2

\* A step that changes no word and no owner's activity is a stutter.
LEMMA QuietStep ==
    ASSUME \A s \in Sources :
               \/ /\ word'[s] = word[s]
                  /\ word[s].bound =>
                        (IsActive(word[s].artifact)' <=> IsActive(word[s].artifact))
               \/ /\ ~(word[s].bound /\ IsActive(word[s].artifact))
                  /\ ~(word[s].bound /\ IsActive(word[s].artifact))'
    PROVE  UNCHANGED routes
  BY DEF routes, EffectiveRoute, IsActive

\* An artifact that was not active becomes it: all its routes appear.
LEMMA PublishActiveRoutes ==
    ASSUME TypeOK, Ownership, PublishActive
    PROVE  \E S \in SUBSET Sources : \E slots \in [S -> Slots] :
               Routing!Publish(subject, slots)
  <1> DEFINE S == BoundSources(subject)
             slots == [s \in S |-> Ports(subject)[s].slot]
  <1>1. /\ subject \in Artifacts
        /\ AtPublish
        /\ state' = [state EXCEPT ![subject] = "active"]
        /\ UNCHANGED word
    BY DEF PublishActive, SetState, Ownership, PlaceHolds
  <1>2. /\ S \subseteq Sources
        /\ S # {}
        /\ \A s \in S : Ports(subject)[s].slot \in Slots
        /\ \A s \in S : Owns(subject, s)
    BY <1>1, ValidPorts DEF AtPublish, Ownership, OwnsAll
  <1>3. S \in SUBSET Sources /\ slots \in [S -> Slots] /\ DOMAIN slots = S
    BY <1>2
  <1>4. ~IsActive(subject)
    BY <1>1 DEF AtPublish, IsActive
  <1>5. Routing!RoutedTo(subject) = {}
    BY <1>1, <1>4, RoutedSources
  <1>6. \A s \in S : routes[s] = Routing!NoRoute
    BY <1>2, <1>4, RouteOf DEF Owns, OwnedBy
  <1>7. ASSUME NEW s \in S
        PROVE  routes'[s] = Routing!Route(subject, slots[s])
    <2>1. /\ word'[s].bound
          /\ word'[s].artifact = subject
          /\ word'[s].slot = Ports(subject)[s].slot
          /\ state'[subject] = "active"
      BY <1>1, <1>2 DEF TypeOK, Ownership, WordsAreRoutes, Routes, Owns, OwnedBy
    <2>2. routes'[s] = [routed |-> TRUE, artifact |-> word'[s].artifact,
                        slot |-> word'[s].slot]
      BY <1>2, <2>1 DEF routes, EffectiveRoute
    <2> QED
      BY <2>1, <2>2 DEF Routing!Route
  <1>8. ASSUME NEW s \in Sources \ S
        PROVE  routes'[s] = routes[s]
    <2>1. word[s].bound => word[s].artifact # subject
      BY <1>8 DEF Ownership, WordsAreRoutes, Routes
    <2> QED
      BY <1>1, <2>1, WordFacts DEF TypeOK, routes, EffectiveRoute
  <1>9. routes' = [s \in Sources |->
                     IF s \in DOMAIN slots THEN Routing!Route(subject, slots[s])
                     ELSE routes[s]]
    BY <1>3, <1>7, <1>8 DEF routes
  <1>10. Routing!Publish(subject, slots)
    BY <1>2, <1>3, <1>5, <1>6, <1>9 DEF Routing!Publish, routes
  <1> HIDE DEF slots, S
  <1> QED
    BY <1>3, <1>10

\* The non-active state hides every route of the artifact at once.
LEMMA WithdrawRoutes ==
    ASSUME TypeOK, Ownership, NEW a \in Artifacts, NEW outcome,
           Withdraw(a, outcome), IsActive(a)
    PROVE  Routing!Withdraw(a)
  <1>1. /\ op = "idle"
        /\ state' = [state EXCEPT ![a] = "reopening"]
        /\ UNCHANGED word
    BY DEF Withdraw, SetState
  <1>2. a # parent
    BY <1>1, NoArtifactAssumption DEF Ownership, PlaceHolds, AtIdle
  <1>3. PICK s \in Sources : Owns(a, s)
    BY <1>2, ValidPorts DEF IsActive, Ownership, ActiveOwns, OwnsAll
  <1>4. Routing!RoutedTo(a) # {}
    BY <1>3, RoutedSources
  <1>5. ASSUME NEW u \in Routing!RoutedTo(a)
        PROVE  routes'[u] = Routing!NoRoute
    <2>1. u \in Sources /\ Owns(a, u)
      BY <1>5, RoutedSources
    <2> QED
      BY <1>1, <2>1 DEF TypeOK, routes, EffectiveRoute, Owns, OwnedBy, Routing!NoRoute
  <1>6. ASSUME NEW u \in Sources, u \notin Routing!RoutedTo(a)
        PROVE  routes'[u] = routes[u]
    <2>1. ~Owns(a, u)
      BY <1>6, RoutedSources
    <2> QED
      BY <1>1, <2>1, WordFacts DEF TypeOK, routes, EffectiveRoute, Owns, OwnedBy
  <1>7. routes' = [u \in Sources |->
                     IF u \in Routing!RoutedTo(a) THEN Routing!NoRoute ELSE routes[u]]
    BY <1>5, <1>6 DEF routes
  <1> QED
    BY <1>4, <1>7 DEF Routing!Withdraw, routes

\* A moved word leaves an active parent for a child that is not active yet.
LEMMA MoveSourceRoutes ==
    ASSUME TypeOK, Ownership, NEW s \in Sources, MoveSource(s)
    PROVE  Routing!Detach(s)
  <1>1. /\ AtMove
        /\ Owns(parent, s)
        /\ s \in BoundSources(subject)
        /\ subject \in Artifacts
    BY DEF MoveSource, Ownership, PlaceHolds, AtMove
  <1>2. /\ word' = [word EXCEPT ![s] =
                      RebindWord(word[s], subject, Ports(subject)[s].slot)]
        /\ UNCHANGED state
    BY <1>1 DEF MoveSource, Owns
  <1>3. RebindWord(word[s], subject, Ports(subject)[s].slot).artifact = subject
    BY DEF RebindWord, Bound
  <1>4. routes[s].routed = TRUE
    <2>1. word[s].bound /\ word[s].artifact = parent /\ state[parent] = "active"
      BY <1>1 DEF AtMove, Replacing, Owns, OwnedBy
    <2> QED
      BY <2>1 DEF routes, EffectiveRoute
  <1>5. routes'[s] = Routing!NoRoute
    BY <1>1, <1>2, <1>3 DEF TypeOK, AtMove, routes, EffectiveRoute, Routing!NoRoute
  <1>6. \A u \in Sources : u # s => routes'[u] = routes[u]
    BY <1>2 DEF TypeOK, routes, EffectiveRoute
  <1>7. routes' = [routes EXCEPT ![s] = Routing!NoRoute]
    BY <1>5, <1>6 DEF routes
  <1> QED
    BY <1>4, <1>7 DEF Routing!Detach, routes

LEMMA StartRoutes ==
    ASSUME TypeOK, Ownership, StartMutator
    PROVE  \/ \E a \in Artifacts : Routing!Withdraw(a)
           \/ UNCHANGED routes
  <1>1. ASSUME NEW a \in Artifacts, Reopen(a) \/ DissolveMapped(a), IsActive(a)
        PROVE  Routing!Withdraw(a)
    BY <1>1, WithdrawRoutes DEF Reopen, DissolveMapped
  <1>2. CASE /\ UNCHANGED word
             /\ \A b \in Artifacts : IsActive(b)' <=> IsActive(b)
    BY <1>2, QuietStep, WordFacts DEF TypeOK
  <1>3. ASSUME NEW a \in Artifacts, Reopen(a) \/ DissolveMapped(a), ~IsActive(a)
        PROVE  UNCHANGED word /\ \A b \in Artifacts : IsActive(b)' <=> IsActive(b)
    BY <1>3 DEF TypeOK, Reopen, DissolveMapped, Withdraw, SetState, IsActive
  <1>4. ASSUME NEW a \in Artifacts,
               \/ \E sp \in Specs : Nominate(a, sp)
               \/ MarkValidated(a)
               \/ MarkCompiled(a)
               \/ BeginShadow(a)
               \/ Activate(a)
               \/ DissolveUnmapped(a)
               \/ Reject(a)
               \/ \E p \in Artifacts : ReplaceActive(p, a)
        PROVE  UNCHANGED word /\ \A b \in Artifacts : IsActive(b)' <=> IsActive(b)
    BY <1>4 DEF TypeOK, Nominate, MarkValidated, MarkCompiled, BeginShadow,
       Activate, DissolveUnmapped, Reject, Rejectable, Transition, ReplaceActive,
       SetState, IsActive
  <1> QED
    BY <1>1, <1>2, <1>3, <1>4 DEF StartMutator

LEMMA ContinueRoutes ==
    ASSUME TypeOK, Ownership, ContinueMutator
    PROVE  [Routing!Next]_routes
  <1>1. CASE PublishActive
    <2>1. subject \in Artifacts
      BY <1>1 DEF PublishActive, Ownership, PlaceHolds
    <2> QED
      BY <1>1, <2>1, PublishActiveRoutes DEF Routing!Next
  <1>2. ASSUME NEW s \in Sources, MoveSource(s)
        PROVE  Routing!Next
    BY <1>2, MoveSourceRoutes DEF Routing!Next
  <1>3. ASSUME NEW s \in Sources, BindSource(s)
        PROVE  UNCHANGED routes
    <2> DEFINE w == BindWord(subject, Ports(subject)[s].slot, word[s].generation)
    <2>1. /\ ~word[s].bound
          /\ word' = [word EXCEPT ![s] = w]
          /\ UNCHANGED state
      BY <1>3 DEF BindSource
    <2>2. w.artifact = subject /\ state[subject] = "activating"
      BY <1>3 DEF BindSource, BindWord, Bound, Ownership, PlaceHolds, AtBind
    <2> HIDE DEF w
    <2>3. ~(word[s].bound /\ IsActive(word[s].artifact))'
      BY <2>1, <2>2 DEF TypeOK, IsActive
    <2>4. \A u \in Sources : u # s => word'[u] = word[u]
      BY <2>1
    <2>5. \A b : IsActive(b)' <=> IsActive(b)
      BY <2>1 DEF IsActive
    <2> QED
      BY <2>1, <2>3, <2>4, <2>5, QuietStep DEF IsActive
  <1>4. ASSUME NEW s \in Sources, ReleaseSource(s)
        PROVE  UNCHANGED routes
    <2> DEFINE w == ReleaseWord(word[s])
    <2>1. /\ word' = word \/ word' = [word EXCEPT ![s] = w]
          /\ UNCHANGED state
      BY <1>4 DEF ReleaseSource
    <2>2. /\ Owns(subject, s)
          /\ state[subject] # "active"
      BY <1>4 DEF ReleaseSource, Ownership, PlaceHolds, AtRelease
    <2>3. ~w.bound
      BY ReleaseFacts DEF TypeOK
    <2> HIDE DEF w
    <2>4. ~(word[s].bound /\ IsActive(word[s].artifact))
      BY <2>2 DEF Owns, OwnedBy, IsActive
    <2>5. ~(word[s].bound /\ IsActive(word[s].artifact))'
      BY <2>1, <2>3, <2>4 DEF TypeOK, IsActive
    <2>6. \A u \in Sources : u # s => word'[u] = word[u]
      BY <2>1 DEF TypeOK
    <2> QED
      BY <2>1, <2>4, <2>5, <2>6, QuietStep DEF IsActive
  <1>5. CASE \/ PublishShadowing
             \/ RotateLive
             \/ ReleaseDone
             \/ HandOff
             \/ \E s \in Sources : BindConflict(s)
    <2>1. UNCHANGED word
      BY <1>5 DEF PublishShadowing, RotateLive, ReleaseDone, HandOff, BindConflict
    <2>2. \A b \in Artifacts : IsActive(b)' <=> IsActive(b)
      <3>1. CASE PublishShadowing
        BY <3>1 DEF TypeOK, Ownership, PlaceHolds, AtShadow, PublishShadowing,
           SetState, IsActive
      <3>2. CASE ReleaseDone
        BY <3>2 DEF TypeOK, Ownership, PlaceHolds, AtRelease, ReleaseDone,
           SetState, IsActive
      <3>3. CASE UNCHANGED state
        BY <3>3 DEF IsActive
      <3> QED
        BY <1>5, <3>1, <3>2, <3>3 DEF RotateLive, HandOff, BindConflict
    <2> QED
      BY <2>1, <2>2, QuietStep, WordFacts DEF TypeOK
  <1>6. CASE RetireParent
    <2>1. /\ AtRetire
          /\ state' = [state EXCEPT ![parent] = "reopening"]
          /\ UNCHANGED word
          /\ op' = "idle"
      BY <1>6 DEF RetireParent, SetState, Done, Working, Ownership, PlaceHolds
    <2>2. ASSUME NEW s \in Sources, Owns(parent, s)
          PROVE  FALSE
      <3>1. s \in BoundSources(subject)
        BY <2>1, <2>2 DEF Ownership, WordsAreRoutes, Routes, Owns, OwnedBy,
           AtRetire, Replacing
      <3>2. subject \in Artifacts
        BY <1>6 DEF RetireParent, Ownership, PlaceHolds
      <3>3. Owns(subject, s)
        BY <2>1, <3>1, <3>2 DEF Ownership, ActiveOwns, OwnsAll, AtRetire, Replacing
      <3> QED
        BY <2>1, <2>2, <3>3 DEF Owns, OwnedBy, AtRetire, Replacing
    <2>3. \A s \in Sources : word[s].bound => word[s].artifact # parent
      BY <2>2 DEF Owns, OwnedBy
    <2>4. \A b \in Artifacts : b # parent => (IsActive(b)' <=> IsActive(b))
      BY <2>1 DEF TypeOK, IsActive
    <2> QED
      BY <2>1, <2>3, <2>4, QuietStep, WordFacts DEF TypeOK
  <1> QED
    BY <1>1, <1>2, <1>3, <1>4, <1>5, <1>6 DEF ContinueMutator

LEMMA RoutingStep == IInv /\ [Next]_vars => [Routing!Next]_routes
  <1> SUFFICES ASSUME IInv, [Next]_vars PROVE [Routing!Next]_routes
    OBVIOUS
  <1>1. TypeOK /\ Ownership
    BY DEF IInv
  <1>2. CASE StartMutator
    BY <1>1, <1>2, StartRoutes DEF Routing!Next
  <1>3. CASE ContinueMutator
    BY <1>1, <1>3, ContinueRoutes
  <1>4. CASE UNCHANGED <<word, state>>
    BY <1>4 DEF routes, EffectiveRoute
  <1> QED
    BY <1>2, <1>3, <1>4 DEF Next, Resolve, CheckArtifact, LookupSource, Record,
       BeginRecord, LoadAuditor, RecheckState, WriteSample, Recorded, Restart, vars

(***************************************************************************)
(* The registry implements SourceRouting: no reader ever sees a route that *)
(* was published in part, or switched under it.                            *)
(***************************************************************************)
THEOREM RegistryImplementsRouting == Spec => RoutingSpec
  <1>1. Init => Routing!Init
    BY DEF Init, Unbound, EffectiveRoute, Routing!Init, Routing!NoRoute
  <1> QED
    BY <1>1, RoutingStep, RegistryInvariant, PTL DEF Spec, RoutingSpec, Routing!Spec, routes
=============================================================================
