---------------------------- MODULE ParserProofs ----------------------------
(***************************************************************************)
(* Proofs about CanParser, for any messages, signals, thresholds and       *)
(* checksum function, and with no bound on frames, calls or time.          *)
(***************************************************************************)
EXTENDS CanParser, TLAPS

\* The statistics are natural numbers.
Statistics ==
    /\ m_total_frames \in Nat
    /\ m_valid_frames \in Nat
    /\ m_invalid_frames \in Nat
    /\ m_rolling_counter_errors \in Nat
    /\ m_checksum_errors \in Nat
    /\ diagnosed \in Nat
    /\ counted \in Nat
    /\ unparsed \in Nat

StatInv == Statistics /\ TotalsAddUp /\ RejectionsExplained

\* What the set-up calls and time leave alone.
statVars == <<m_total_frames, m_valid_frames, m_invalid_frames, errors, ghosts>>

LEMMA StatInvStable == StatInv /\ UNCHANGED statVars => StatInv'
BY DEF StatInv, statVars, errors, ghosts, Statistics, TotalsAddUp, RejectionsExplained

LEMMA SetUpLeaves ==
    ASSUME SetUp
    PROVE  UNCHANGED statVars /\ UNCHANGED <<updates, from, accepted>>
BY DEF SetUp, ChangeWhitelist, enableWhitelist, enableDiagnosticMode, Filter,
       setRollingCounter, setChecksum, resetRollingCounter, Configure,
       registerSignal, set_timeout_threshold, Call, signals, updates, statVars

\* The outcomes of handleFrame that reach no signal.
Aside == \E id \in Id : \/ HandleDiagnostic(id) \/ HandleUnparsed(id)
                        \/ \E d \in Data : HandleInvalid(id, d)

LEMMA AsideLeaves ==
    ASSUME Aside \/ incrementFrame
    PROVE  UNCHANGED <<signals, settings>>
BY DEF Aside, HandleDiagnostic, HandleUnparsed, HandleInvalid, incrementFrame, Count

LEMMA StatInvInductive ==
    ASSUME StatInv, [Next]_parserVars
    PROVE  StatInv'
<1>2. ASSUME NEW id \in Id, HandleDiagnostic(id)
      PROVE  StatInv'
  BY <1>2 DEF HandleDiagnostic, Count, errors, StatInv, Statistics, TotalsAddUp,
              RejectionsExplained
<1>3. ASSUME NEW id \in Id, HandleUnparsed(id)
      PROVE  StatInv'
  BY <1>3 DEF HandleUnparsed, Count, errors, StatInv, Statistics, TotalsAddUp,
              RejectionsExplained
<1>4. ASSUME NEW id \in Id, NEW d \in Data, HandleInvalid(id, d)
      PROVE  StatInv'
  <2>1. ~ validateRollingCounter(id, d) \/ ~ validateChecksum(id, d)
    BY <1>4 DEF HandleInvalid, isFrameValid
  <2>2. /\ m_total_frames' = m_total_frames + 1
        /\ m_invalid_frames' = m_invalid_frames + 1
        /\ UNCHANGED <<m_valid_frames, diagnosed, counted, unparsed>>
    BY <1>4 DEF HandleInvalid, Count
  <2>3. /\ m_rolling_counter_errors' =
               m_rolling_counter_errors + IF validateRollingCounter(id, d) THEN 0 ELSE 1
        /\ m_checksum_errors' =
               m_checksum_errors + IF validateChecksum(id, d) THEN 0 ELSE 1
    BY <1>4 DEF HandleInvalid
  <2> QED
    BY <2>1, <2>2, <2>3 DEF StatInv, Statistics, TotalsAddUp, RejectionsExplained
<1>5. ASSUME NEW id \in Id, NEW d \in Data, HandleValid(id, d)
      PROVE  StatInv'
  <2>1. /\ m_total_frames' = m_total_frames + 1
        /\ m_valid_frames' = m_valid_frames + 1
        /\ UNCHANGED <<m_invalid_frames, m_rolling_counter_errors, m_checksum_errors,
                       diagnosed, counted, unparsed>>
    BY <1>5 DEF HandleValid, Count, errors
  <2> QED
    BY <2>1 DEF StatInv, Statistics, TotalsAddUp, RejectionsExplained
<1>6. CASE incrementFrame
  BY <1>6 DEF incrementFrame, errors, StatInv, Statistics, TotalsAddUp, RejectionsExplained
<1>7. CASE SetUp
  BY <1>7, SetUpLeaves, StatInvStable
<1>8. CASE Tick
  <2>1. UNCHANGED statVars
    BY <1>8 DEF Tick, statVars
  <2> QED
    BY <2>1, StatInvStable
<1>9. CASE UNCHANGED parserVars
  <2>1. UNCHANGED statVars
    BY <1>9 DEF parserVars, statVars
  <2> QED
    BY <2>1, StatInvStable
<1> QED
  BY <1>2, <1>3, <1>4, <1>5, <1>6, <1>7, <1>8, <1>9 DEF Next, Frames

LEMMA InitStatInv == Init => StatInv
BY DEF Init, StatInv, Statistics, TotalsAddUp, RejectionsExplained

\* For every outcome of handleFrame the five statistics stay consistent: each
\* frame is counted once, and each failed validation under one error or two.
THEOREM StatisticsConsistent == Spec => [](TotalsAddUp /\ RejectionsExplained)
<1>1. StatInv => TotalsAddUp /\ RejectionsExplained
  BY DEF StatInv
<1> QED
  BY <1>1, InitStatInv, StatInvInductive, PTL DEF Spec
-----------------------------------------------------------------------------
\* What is known of a signal is what the accepted frames since it was registered
\* say of it: the last one of its message, or the last one that carried it.
SignalTyped ==
    /\ registered \subseteq Signal
    /\ threshold \in [Signal -> 0 .. MaxAge]
    /\ is_valid_ \in [Signal -> BOOLEAN]
    /\ age \in [Signal -> 0 .. MaxAge]
    /\ silence \in [Signal -> 0 .. MaxAge]
    /\ branch \in [Signal -> MuxValues \cup {-1, Unheard}]

Tracked(s) ==
    /\ age[s] = silence[s]
    /\ is_valid_[s] => branch[s] # Unheard /\ (s \in Multiplexed => branch[s] = MuxValue[s])
    /\ branch[s] # Unheard /\ (s \in Multiplexed => branch[s] = MuxValue[s]) => is_valid_[s]
    /\ s \notin registered => age[s] = 0 /\ branch[s] = Unheard

\* Signals of one message have heard the same frame, if any.
SameFrame(s, t) ==
    MessageOf[s] = MessageOf[t] /\ branch[s] # Unheard /\ branch[t] # Unheard
        => branch[s] = branch[t]

SignalInv ==
    /\ SignalTyped
    /\ \A s \in Signal : Tracked(s)
    /\ \A s, t \in Signal : SameFrame(s, t)

LEMMA MultiplexorRead ==
    ASSUME NEW id \in Id, NEW d \in Data
    PROVE  CurrentMux(id, d) \in MuxValues \cup {-1} /\ CurrentMux(id, d) # Unheard
<1>1. MuxValues \subseteq Nat
  BY RegistryAssumption DEF MuxValues
<1>2. d.mux \in MuxValues
  BY DEF Data
<1> QED
  BY <1>1, <1>2 DEF CurrentMux, Unheard

\* The branch parse reads is the one the frame was sent for: -1, which it passes
\* without a multiplexor, is no branch.
LEMMA CarriedIsUpdated ==
    ASSUME NEW id \in Id, NEW d \in Data, NEW s \in Signal
    PROVE  Carries(id, d, s) <=> s \in Mine(id) /\ Updates(s, CurrentMux(id, d))
<1>1. s \in Multiplexed => MuxValue[s] # -1
  BY RegistryAssumption
<1> QED
  BY <1>1 DEF Carries, Updates, CurrentMux

LEMMA SignalInvStable ==
    ASSUME SignalInv, UNCHANGED <<registered, threshold, updates>>
    PROVE  SignalInv'
BY DEF SignalInv, SignalTyped, Tracked, SameFrame, updates

LEMMA AcceptedFrameTracked ==
    ASSUME SignalInv, NEW id \in Id, NEW d \in Data, HandleValid(id, d)
    PROVE  SignalInv'
<1> DEFINE mux == CurrentMux(id, d)
           mine == Mine(id)
<1>1. mux \in MuxValues \cup {-1} /\ mux # Unheard
  BY MultiplexorRead
<1>2. /\ is_valid_' = [s \in Signal |-> IF s \in mine THEN Updates(s, mux) ELSE is_valid_[s]]
      /\ age' = [s \in Signal |-> IF s \in mine /\ Updates(s, mux) THEN 0 ELSE age[s]]
      /\ branch' = [s \in Signal |-> IF s \in mine THEN mux ELSE branch[s]]
      /\ silence' = [s \in Signal |->
                        IF s \in mine /\ Updates(s, mux) THEN 0 ELSE silence[s]]
      /\ UNCHANGED <<registered, threshold>>
  <2>1. silence' = [s \in Signal |-> IF Carries(id, d, s) THEN 0 ELSE silence[s]]
    BY DEF HandleValid
  <2>2. silence' = [s \in Signal |->
                        IF s \in mine /\ Updates(s, mux) THEN 0 ELSE silence[s]]
    BY <2>1, CarriedIsUpdated
  <2> QED
    BY <2>2 DEF HandleValid, Count, settings, registry
<1> HIDE DEF mux
<1>3. /\ SignalTyped /\ \A s \in Signal : Tracked(s)
      /\ \A s, t \in Signal : SameFrame(s, t)
  BY DEF SignalInv
<1>4. \A s \in Signal : Updates(s, mux) \in BOOLEAN
  BY DEF Updates
<1>5. 0 \in 0 .. MaxAge
  BY ParserBounds
<1>6. \A s \in mine : s \in registered /\ MessageOf[s] = id
  BY DEF Mine
<1>7. \A s \in Signal \ mine : MessageOf[s] = id => branch[s] = Unheard
  BY <1>3 DEF Mine, Tracked
<1> HIDE DEF mine
<1>8. SignalTyped'
  BY <1>1, <1>2, <1>3, <1>4, <1>5 DEF SignalTyped
<1>9. ASSUME NEW s \in Signal
      PROVE  Tracked(s)'
  <2>1. Tracked(s)
    BY <1>3
  <2>2. age'[s] = silence'[s]
    BY <1>2, <2>1 DEF Tracked
  <2>3. CASE s \in mine
    <3>1. /\ is_valid_'[s] = Updates(s, mux) /\ branch'[s] = mux /\ s \in registered'
      BY <1>2, <1>6, <2>3
    <3>2. Updates(s, mux) <=> (s \in Multiplexed => branch'[s] = MuxValue[s])
      BY <3>1 DEF Updates
    <3> QED
      BY <1>1, <2>2, <3>1, <3>2 DEF Tracked
  <2>4. CASE s \notin mine
    <3>1. /\ is_valid_'[s] = is_valid_[s] /\ branch'[s] = branch[s]
          /\ age'[s] = age[s] /\ registered' = registered
      BY <1>2, <2>4
    <3> QED
      BY <2>1, <2>2, <3>1 DEF Tracked
  <2> QED
    BY <2>3, <2>4
<1>10. ASSUME NEW s \in Signal, NEW t \in Signal
       PROVE  SameFrame(s, t)'
  <2>1. SameFrame(s, t)
    BY <1>3
  <2> QED
    BY <1>1, <1>2, <1>6, <1>7, <2>1 DEF SameFrame
<1> QED
  BY <1>8, <1>9, <1>10 DEF SignalInv

LEMMA TimeTracked ==
    ASSUME SignalInv, Tick
    PROVE  SignalInv'
<1>1. /\ age' = [s \in Signal |-> IF s \in registered THEN Older(age[s]) ELSE 0]
      /\ silence' = [s \in Signal |-> IF s \in registered THEN Older(silence[s]) ELSE 0]
      /\ UNCHANGED <<registered, threshold, is_valid_, branch>>
  BY DEF Tick, settings, registry
<1>2. SignalTyped /\ \A s \in Signal : Tracked(s)
  BY DEF SignalInv
<1>3. \A s \in Signal : /\ age[s] \in 0 .. MaxAge /\ silence[s] \in 0 .. MaxAge
  BY <1>2 DEF SignalTyped
<1>4. \A n \in 0 .. MaxAge : Older(n) \in 0 .. MaxAge
  BY ParserBounds DEF Older
<1>5. SignalTyped'
  <2>1. 0 \in 0 .. MaxAge
    BY ParserBounds
  <2> QED
    BY <1>1, <1>2, <1>3, <1>4, <2>1 DEF SignalTyped
<1>6. ASSUME NEW s \in Signal
      PROVE  Tracked(s)'
  <2>1. Tracked(s)
    BY <1>2
  <2>2. CASE s \in registered
    <3>1. age'[s] = Older(age[s]) /\ silence'[s] = Older(silence[s])
      BY <1>1, <2>2
    <3> QED
      BY <1>1, <2>1, <2>2, <3>1 DEF Tracked
  <2>3. CASE s \notin registered
    BY <1>1, <2>1, <2>3 DEF Tracked
  <2> QED
    BY <2>2, <2>3
<1>7. \A s, t \in Signal : SameFrame(s, t)'
  BY <1>1 DEF SignalInv, SameFrame
<1> QED
  BY <1>5, <1>6, <1>7 DEF SignalInv

LEMMA SetUpTracked ==
    ASSUME SignalInv, SetUp
    PROVE  SignalInv'
<1>1. UNCHANGED updates
  BY SetUpLeaves DEF statVars
<1>2. /\ registered \subseteq registered' /\ registered' \subseteq Signal
      /\ threshold' \in [Signal -> 0 .. MaxAge]
  <2>1. SignalTyped
    BY DEF SignalInv
  <2>2. ASSUME NEW s \in Signal, registerSignal(s) \/ set_timeout_threshold(s)
        PROVE  /\ registered \subseteq registered' /\ registered' \subseteq Signal
               /\ threshold' \in [Signal -> 0 .. MaxAge]
    <3>1. PICK t \in Timeout[s] : threshold' = [threshold EXCEPT ![s] = t]
      BY <2>2 DEF registerSignal, set_timeout_threshold
    <3>2. t \in 0 .. MaxAge
      BY RegistryAssumption, ParserBounds
    <3>3. registered' \in {registered, registered \cup {s}}
      BY <2>2 DEF registerSignal, set_timeout_threshold
    <3> QED
      BY <2>1, <3>1, <3>2, <3>3 DEF SignalTyped
  <2>3. CASE ~ \E s \in Signal : registerSignal(s) \/ set_timeout_threshold(s)
    <3>1. UNCHANGED <<registered, threshold>>
      BY <2>3 DEF SetUp, ChangeWhitelist, enableWhitelist, enableDiagnosticMode, Filter,
                  setRollingCounter, setChecksum, resetRollingCounter, Configure, registry
    <3> QED
      BY <2>1, <3>1 DEF SignalTyped
  <2> QED
    BY <2>2, <2>3
<1> QED
  BY <1>1, <1>2 DEF SignalInv, SignalTyped, Tracked, SameFrame, updates

LEMMA SignalInvInductive ==
    ASSUME SignalInv, [Next]_parserVars
    PROVE  SignalInv'
<1>1. CASE \E id \in Id : \E d \in Data : HandleValid(id, d)
  BY <1>1, AcceptedFrameTracked
<1>2. CASE Aside \/ incrementFrame
  BY <1>2, AsideLeaves, SignalInvStable DEF signals, settings, registry
<1>3. CASE SetUp
  BY <1>3, SetUpTracked
<1>4. CASE Tick
  BY <1>4, TimeTracked
<1>5. CASE UNCHANGED parserVars
  BY <1>5, SignalInvStable DEF parserVars, signals, settings, registry
<1> QED
  BY <1>1, <1>2, <1>3, <1>4, <1>5 DEF Next, Frames, Aside

LEMMA InitSignalInv == Init => SignalInv
<1>1. 0 \in 0 .. MaxAge
  BY ParserBounds
<1> QED
  BY <1>1 DEF Init, SignalInv, SignalTyped, Tracked, SameFrame

\* No sequence of accepted and rejected frames leaves signals of two branches
\* of a message valid at the same time, whenever they were registered.
THEOREM BranchesExclude == Spec => []OneBranchValid
<1>1. SignalInv => OneBranchValid
  BY RegistryAssumption DEF SignalInv, Tracked, SameFrame, OneBranchValid
<1> QED
  BY <1>1, InitSignalInv, SignalInvInductive, PTL DEF Spec

\* For all thresholds, and however the frames, the set-up calls and the passing
\* of time follow each other: a signal times out exactly when no frame that
\* carries it was accepted for longer than its threshold.
THEOREM TimeoutsAreSilence == Spec => []TimeoutsTrackAcceptance
<1>1. SignalInv => TimeoutsTrackAcceptance
  <2>1. SUFFICES ASSUME SignalInv, NEW s \in registered
                 PROVE  is_timeout(s) <=> threshold[s] # 0 /\ silence[s] > threshold[s]
    BY DEF TimeoutsTrackAcceptance
  <2>2. age[s] = silence[s]
    BY <2>1 DEF SignalInv, SignalTyped, Tracked
  <2> QED
    BY <2>2 DEF is_timeout
<1> QED
  BY <1>1, InitSignalInv, SignalInvInductive, PTL DEF Spec

\* The marks on the dashboard and the count of timed-out signals above them
\* differ in the two cases named there only.
THEOREM MarksExplained == Spec => []MarksMatchCount
<1>1. SignalInv => MarksMatchCount
  <2>1. SUFFICES ASSUME SignalInv, NEW s \in registered
                 PROVE  /\ Marked(s) /\ ~ is_timeout(s) => branch[s] = Unheard
                        /\ is_timeout(s) /\ ~ Marked(s) =>
                              s \in Multiplexed /\ branch[s] # MuxValue[s]
    BY DEF MarksMatchCount
  <2>2. s \in Signal
    BY <2>1 DEF SignalInv, SignalTyped
  <2>3. Tracked(s)
    BY <2>1, <2>2 DEF SignalInv
  <2>4. \A r \in Multiplexed : MuxValue[r] # Unheard
    BY RegistryAssumption DEF Unheard
  <2> QED
    BY <2>3, <2>4 DEF Tracked, Marked, is_timeout
<1> QED
  BY <1>1, InitSignalInv, SignalInvInductive, PTL DEF Spec
-----------------------------------------------------------------------------
\* A counter remembered from an accepted frame is one that frames carry.
CounterInv ==
    /\ seen \in [Id -> BOOLEAN]
    /\ hasCounter \subseteq Id
    /\ last_rolling_counter_ \in [Id -> Counters \cup {NoCounter}]
    /\ \A id \in hasCounter : seen[id] => last_rolling_counter_[id] \in Counters

LEMMA CounterInvStable ==
    CounterInv /\ UNCHANGED <<seen, hasCounter, last_rolling_counter_>> => CounterInv'
BY DEF CounterInv

LEMMA CounterInvInductive ==
    ASSUME CounterInv, [Next]_parserVars
    PROVE  CounterInv'
<1>1. ASSUME NEW id \in Id, NEW d \in Data, HandleValid(id, d)
      PROVE  CounterInv'
  <2>1. d.counter \in Counters
    BY DEF Data
  <2>2. hasCounter' = hasCounter /\ seen' = [seen EXCEPT ![id] = TRUE]
    BY <1>1 DEF HandleValid, Count, settings
  <2>3. CASE id \in hasCounter
    <3>1. last_rolling_counter_' = [last_rolling_counter_ EXCEPT ![id] = d.counter]
      BY <1>1, <2>3 DEF HandleValid
    <3> QED
      BY <2>1, <2>2, <3>1 DEF CounterInv
  <2>4. CASE id \notin hasCounter
    <3>1. last_rolling_counter_' = last_rolling_counter_
      BY <1>1, <2>4 DEF HandleValid
    <3> QED
      BY <2>2, <2>4, <3>1 DEF CounterInv
  <2> QED
    BY <2>3, <2>4
<1>2. ASSUME NEW id \in Id, setRollingCounter(id) \/ resetRollingCounter(id)
      PROVE  CounterInv'
  <2>1. /\ hasCounter' \in {hasCounter, hasCounter \cup {id}}
        /\ last_rolling_counter_' = [last_rolling_counter_ EXCEPT ![id] = NoCounter]
        /\ seen' = [seen EXCEPT ![id] = FALSE]
    BY <1>2 DEF setRollingCounter, resetRollingCounter, ForgetCounter
  <2> QED
    BY <2>1 DEF CounterInv
<1>3. CASE Aside \/ incrementFrame
  BY <1>3, AsideLeaves, CounterInvStable DEF signals, settings
<1>4. CASE \/ \E id \in Id : setChecksum(id)
           \/ \E s \in Signal : registerSignal(s) \/ set_timeout_threshold(s)
  BY <1>4, CounterInvStable DEF setChecksum, registerSignal, set_timeout_threshold, signals
<1>5. CASE ChangeWhitelist \/ enableWhitelist \/ enableDiagnosticMode
  BY <1>5, CounterInvStable DEF ChangeWhitelist, enableWhitelist, enableDiagnosticMode, Filter
<1>6. CASE Tick \/ UNCHANGED parserVars
  BY <1>6, CounterInvStable DEF Tick, parserVars, signals, settings
<1> QED
  BY <1>1, <1>2, <1>3, <1>4, <1>5, <1>6 DEF Next, Frames, SetUp, Aside

LEMMA InitCounterInv == Init => CounterInv
BY DEF Init, CounterInv

\* The settings, and what is kept of the last accepted frame.
SettingsTyped ==
    /\ whitelist_ \subseteq Id
    /\ whitelist_enabled_ \in BOOLEAN
    /\ diagnostic_mode_enabled_ \in BOOLEAN
    /\ hasChecksum \subseteq Id
    /\ from \subseteq Id
    /\ accepted \in BOOLEAN
    /\ calls \in Nat

LEMMA SettingsTypedInductive ==
    ASSUME SettingsTyped, [Next]_parserVars
    PROVE  SettingsTyped'
<1>1. ASSUME NEW id \in Id, NEW d \in Data, HandleValid(id, d)
      PROVE  SettingsTyped'
  <2>1. from' = {id} /\ accepted' \in {(id \in hasChecksum => right) : right \in BOOLEAN}
    BY <1>1 DEF HandleValid
  <2>2. accepted' \in BOOLEAN
    BY <2>1
  <2>3. UNCHANGED <<filters, hasChecksum, calls>>
    BY <1>1 DEF HandleValid, Count, settings
  <2> QED
    BY <2>1, <2>2, <2>3 DEF SettingsTyped, filters
<1>2. CASE Aside \/ incrementFrame
  <2>1. UNCHANGED <<signals, settings, calls>>
    BY <1>2, AsideLeaves DEF Aside, HandleDiagnostic, HandleUnparsed, HandleInvalid, Count,
                             incrementFrame
  <2> QED
    BY <2>1 DEF SettingsTyped, signals, settings, filters
<1>3. CASE SetUp
  <2>1. UNCHANGED <<from, accepted>>
    BY <1>3, SetUpLeaves
  <2>2. calls' \in {calls, calls + 1}
    BY <1>3 DEF SetUp, ChangeWhitelist, enableWhitelist, enableDiagnosticMode, Filter,
                setRollingCounter, setChecksum, resetRollingCounter, Configure,
                registerSignal, set_timeout_threshold, Call
  <2>3. CASE ChangeWhitelist \/ enableWhitelist \/ enableDiagnosticMode
    BY <2>1, <2>2, <2>3
       DEF ChangeWhitelist, enableWhitelist, enableDiagnosticMode, Filter, SettingsTyped
  <2>4. CASE \/ \E id \in Id : setRollingCounter(id) \/ setChecksum(id)
                                  \/ resetRollingCounter(id)
             \/ \E s \in Signal : registerSignal(s) \/ set_timeout_threshold(s)
    <3>1. UNCHANGED filters
      BY <2>4 DEF setRollingCounter, setChecksum, resetRollingCounter, Configure,
                  registerSignal, set_timeout_threshold, filters
    <3>2. hasChecksum' = hasChecksum \/ \E id \in Id : hasChecksum' = hasChecksum \cup {id}
      BY <2>4 DEF setRollingCounter, setChecksum, resetRollingCounter, registerSignal,
                  set_timeout_threshold
    <3> QED
      BY <2>1, <2>2, <3>1, <3>2 DEF SettingsTyped, filters
  <2> QED
    BY <1>3, <2>3, <2>4 DEF SetUp
<1>4. CASE Tick \/ UNCHANGED parserVars
  BY <1>4 DEF Tick, parserVars, signals, settings, filters, SettingsTyped
<1> QED
  BY <1>1, <1>2, <1>3, <1>4 DEF Next, Frames, Aside

\* Types, for any messages, signals and thresholds: no counter grows past a
\* byte, no clock past its bound.
THEOREM ParserTyped == Spec => []TypeOK
<1>1. StatInv /\ SignalInv /\ CounterInv /\ SettingsTyped => TypeOK
  <2>1. Counters \cup {NoCounter} \subseteq 0 .. 255
    BY CounterAssumption DEF Counters, NoCounter
  <2> QED
    BY <2>1 DEF StatInv, Statistics, SignalInv, SignalTyped, CounterInv, SettingsTyped, TypeOK
<1>2. Init => SettingsTyped
  <2>1. Init => /\ whitelist_ = {} /\ hasChecksum = {} /\ from = {} /\ calls \in Nat
    BY DEF Init
  <2>2. Init => /\ whitelist_enabled_ \in BOOLEAN /\ diagnostic_mode_enabled_ \in BOOLEAN
                /\ accepted \in BOOLEAN
    BY Zenon DEF Init
  <2> QED
    BY <2>1, <2>2 DEF SettingsTyped
<1> QED
  <2> DEFINE Inv == StatInv /\ SignalInv /\ CounterInv /\ SettingsTyped
  <2>1. Init => Inv
    BY <1>2, InitStatInv, InitSignalInv, InitCounterInv
  <2>2. Inv /\ [Next]_parserVars => Inv'
    BY StatInvInductive, SignalInvInductive, CounterInvInductive, SettingsTypedInductive
  <2> QED
    BY <1>1, <2>1, <2>2, PTL DEF Spec

\* A rolling counter of fewer than eight bits, whose values stay below the
\* sentinel 255: between two calls of setRollingCounter or resetRollingCounter
\* no frame is accepted out of turn.  (With eight bits TLC finds the exception.)
THEOREM CountersInTurn == ASSUME Modulus < 256 PROVE Spec => NoSkippedCounter
<1>1. CounterInv /\ [Next]_parserVars =>
          [\A id \in from' \cap hasCounter :
               m_valid_frames' # m_valid_frames /\ seen[id]
                   => last_rolling_counter_'[id] =
                          ExpectedAfter(last_rolling_counter_[id])]_parserVars
  <2>1. SUFFICES ASSUME CounterInv, Next, NEW c \in from' \cap hasCounter,
                        m_valid_frames' # m_valid_frames, seen[c]
                 PROVE  last_rolling_counter_'[c] = ExpectedAfter(last_rolling_counter_[c])
    OBVIOUS
  <2>2. PICK id \in Id, d \in Data : HandleValid(id, d)
    <3>1. ~ SetUp
      BY <2>1, SetUpLeaves DEF statVars
    <3> QED
      BY <2>1, <3>1
         DEF Next, Frames, HandleDiagnostic, HandleUnparsed, HandleInvalid, incrementFrame, Tick
  <2>3. c = id
    BY <2>1, <2>2 DEF HandleValid
  <2>4. last_rolling_counter_' = [last_rolling_counter_ EXCEPT ![id] = d.counter]
    BY <2>1, <2>2, <2>3 DEF HandleValid
  <2>5. last_rolling_counter_[id] # NoCounter
    BY <2>1, <2>3, CounterAssumption DEF CounterInv, Counters, NoCounter
  <2>6. d.counter = ExpectedAfter(last_rolling_counter_[id])
    BY <2>1, <2>2, <2>3, <2>5
       DEF HandleValid, isFrameValid, validateRollingCounter, CounterValid
  <2> QED
    BY <2>1, <2>3, <2>4, <2>6 DEF CounterInv
<1> QED
  BY <1>1, InitCounterInv, CounterInvInductive, PTL DEF Spec, NoSkippedCounter
=============================================================================
