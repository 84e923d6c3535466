----------------------------- MODULE CanParser ------------------------------
(***************************************************************************)
(* The frame parser (CanParser, CanMessage and Signal in                   *)
(* src/src/can_parser.cpp): white list, validation of a message by rolling *)
(* counter and checksum, multiplexed signals, time-outs and statistics.    *)
(* A signal is registered at most once.                                    *)
(*                                                                         *)
(* What validation and parse tell apart in a frame's eight bytes: the      *)
(* rolling counter, the multiplexor's raw value, and the checksum field.   *)
(* A checksum field here is one whole byte.  calculateChecksum runs over   *)
(* the bytes whose first bit lies in checksum_start_ .. checksum_start_ +  *)
(* checksum_length_ - 1, so it runs over the checksum field itself and     *)
(* nothing else: what it computes is a function of the field.              *)
(***************************************************************************)
EXTENDS CounterRule

CONSTANTS Id,           \* CAN ids that occur
          Uds,          \* 0x7E0 and 0x7E8
          Signal,       \* the signals there may be
          MessageOf,    \* the id each signal is registered under
          Multiplexor,  \* the signals that are a multiplexor
          MuxValue,     \* the mux_value_ of the multiplexed signals
          Timeout,      \* per signal, the values of timeout_threshold_ms_, in ticks
          Field,        \* the values of the checksum field
          Calculated,   \* calculateChecksum: the same value for XOR and SUM
          MaxFrames, MaxCalls, MaxAge   \* bounds: frames, set-up calls, time

Multiplexed == DOMAIN MuxValue

ASSUME RegistryAssumption ==
    /\ Uds \subseteq Id
    /\ MessageOf \in [Signal -> Id]
    /\ Multiplexor \subseteq Signal
    /\ Multiplexed \subseteq Signal
    /\ \A s \in Multiplexed : MuxValue[s] \in Nat
    /\ \A s \in Signal : Timeout[s] \subseteq 0 .. MaxAge - 1
ASSUME ChecksumAssumption == Field # {} /\ Field \subseteq Nat /\ Calculated \in [Field -> Nat]
ASSUME ParserBounds == {MaxFrames, MaxCalls, MaxAge} \subseteq Nat

MuxValues == {0} \cup {MuxValue[s] : s \in Multiplexed}
Data == [counter : Counters, mux : MuxValues, field : Field]

VARIABLES
    whitelist_, whitelist_enabled_, diagnostic_mode_enabled_,
    hasCounter,             \* the messages setRollingCounter configured
    hasChecksum,            \* the messages setChecksum configured
    registered,             \* the signals of message_registry_
    threshold,              \* per signal, timeout_threshold_ms_
    last_rolling_counter_,
    is_valid_,              \* per signal
    age,                    \* time since the signal's last_update_time_
    m_total_frames, m_valid_frames, m_invalid_frames,
    m_rolling_counter_errors, m_checksum_errors,
    \* history
    seen,                   \* a frame was accepted since the counter was set
    silence,                \* per signal, time since the last accepted frame that
                            \* carried it, or since it was registered
    branch,                 \* per signal, the multiplexor of its message's last
                            \* accepted frame
    from,                   \* the id of the last accepted frame, if any
    accepted,               \* its checksum field was right, or unused
    diagnosed,              \* frames given to the diagnostic plug-in
    counted,                \* frames counted by incrementFrame
    unparsed,               \* frames rejected before validation
    calls                   \* for the bound

filters == <<whitelist_, whitelist_enabled_, diagnostic_mode_enabled_>>
registry == <<registered, threshold>>
settings == <<filters, hasCounter, hasChecksum, registry>>
updates == <<is_valid_, age, silence, branch>>
signals == <<last_rolling_counter_, seen, updates, from, accepted>>
errors == <<m_rolling_counter_errors, m_checksum_errors>>
ghosts == <<diagnosed, counted, unparsed>>
parserVars == <<settings, signals, m_total_frames, m_valid_frames, m_invalid_frames,
                errors, ghosts, calls>>

\* No frame was accepted yet.
Unheard == -2

Init ==
    /\ whitelist_ = {}
    /\ whitelist_enabled_ = FALSE
    /\ diagnostic_mode_enabled_ = FALSE
    /\ hasCounter = {}
    /\ hasChecksum = {}
    /\ registered = {}
    /\ threshold = [s \in Signal |-> 0]
    /\ last_rolling_counter_ = [id \in Id |-> NoCounter]
    /\ is_valid_ = [s \in Signal |-> FALSE]
    /\ age = [s \in Signal |-> 0]
    /\ m_total_frames = 0
    /\ m_valid_frames = 0
    /\ m_invalid_frames = 0
    /\ m_rolling_counter_errors = 0
    /\ m_checksum_errors = 0
    /\ seen = [id \in Id |-> FALSE]
    /\ silence = [s \in Signal |-> 0]
    /\ branch = [s \in Signal |-> Unheard]
    /\ from = {}
    /\ accepted = TRUE
    /\ diagnosed = 0
    /\ counted = 0
    /\ unparsed = 0
    /\ calls = 0
-----------------------------------------------------------------------------
hasMessage(id) == \E s \in registered : MessageOf[s] = id

isInWhitelist(id) == whitelist_enabled_ => id \in whitelist_

validateRollingCounter(id, d) ==
    id \in hasCounter => CounterValid(last_rolling_counter_[id], d.counter)

validateChecksum(id, d) == id \in hasChecksum => Calculated[d.field] = d.field

isFrameValid(id, d) == validateRollingCounter(id, d) /\ validateChecksum(id, d)

\* The signals of the message.
Mine(id) == {s \in registered : MessageOf[s] = id}

\* parse's current_mux_value: -1 for a message without a multiplexor.
CurrentMux(id, d) ==
    IF \E s \in Multiplexor \cap registered : MessageOf[s] = id THEN d.mux ELSE -1

\* Signal::update refreshes a signal unless it belongs to another branch.
Updates(s, mux) == s \in Multiplexed => MuxValue[s] = mux

\* What the time-outs are about: the frame has a value for s.  The branch a
\* frame belongs to is known when the message's multiplexor is registered.
Carries(id, d, s) ==
    /\ s \in Mine(id)
    /\ s \in Multiplexed =>
           d.mux = MuxValue[s] /\ \E t \in Multiplexor \cap registered : MessageOf[t] = id

is_timeout(s) == threshold[s] # 0 /\ age[s] > threshold[s]

\* Mutant: every signal with a threshold is marked.
MarkedAlways(s) == threshold[s] # 0

\* print: the signal is shown with [TIMEOUT].
Marked(s) ==
    IF is_valid_[s] THEN is_timeout(s) ELSE s \notin Multiplexed /\ threshold[s] # 0
-----------------------------------------------------------------------------
(***************************************************************************)
(* handleFrame, one action per outcome.                                    *)
(***************************************************************************)
Count ==
    /\ m_total_frames < MaxFrames
    /\ m_total_frames' = m_total_frames + 1
    /\ UNCHANGED <<settings, counted, calls>>

Diagnosed(id) == diagnostic_mode_enabled_ /\ id \in Uds

HandleDiagnostic(id) ==
    /\ Diagnosed(id)
    /\ Count
    /\ diagnosed' = diagnosed + 1
    /\ UNCHANGED <<signals, m_valid_frames, m_invalid_frames, errors, unparsed>>

\* Mutant: a frame rejected by the white list is not counted as invalid.
HandleUncounted(id) ==
    /\ ~ Diagnosed(id)
    /\ ~ isInWhitelist(id) \/ ~ hasMessage(id)
    /\ Count
    /\ unparsed' = unparsed + 1
    /\ UNCHANGED <<signals, m_valid_frames, m_invalid_frames, errors, diagnosed>>

\* Not on the white list, or not registered.
HandleUnparsed(id) ==
    /\ ~ Diagnosed(id)
    /\ ~ isInWhitelist(id) \/ ~ hasMessage(id)
    /\ Count
    /\ m_invalid_frames' = m_invalid_frames + 1
    /\ unparsed' = unparsed + 1
    /\ UNCHANGED <<signals, m_valid_frames, errors, diagnosed>>

\* Mutant: only counter errors are counted.
HandleInvalidUnexplained(id, d) ==
    /\ ~ Diagnosed(id) /\ isInWhitelist(id) /\ hasMessage(id)
    /\ ~ isFrameValid(id, d)
    /\ Count
    /\ m_invalid_frames' = m_invalid_frames + 1
    /\ m_rolling_counter_errors' =
           m_rolling_counter_errors + IF validateRollingCounter(id, d) THEN 0 ELSE 1
    /\ UNCHANGED <<signals, m_valid_frames, m_checksum_errors, diagnosed, unparsed>>

HandleInvalid(id, d) ==
    /\ ~ Diagnosed(id) /\ isInWhitelist(id) /\ hasMessage(id)
    /\ ~ isFrameValid(id, d)
    /\ Count
    /\ m_invalid_frames' = m_invalid_frames + 1
    /\ m_rolling_counter_errors' =
           m_rolling_counter_errors + IF validateRollingCounter(id, d) THEN 0 ELSE 1
    /\ m_checksum_errors' = m_checksum_errors + IF validateChecksum(id, d) THEN 0 ELSE 1
    /\ UNCHANGED <<signals, m_valid_frames, diagnosed, unparsed>>

\* Mutant: update leaves the signals of the other branches as they were.
HandleValidKeeping(id, d) ==
    /\ ~ Diagnosed(id) /\ isInWhitelist(id) /\ hasMessage(id)
    /\ isFrameValid(id, d)
    /\ Count
    /\ m_valid_frames' = m_valid_frames + 1
    /\ LET updated(s) == s \in Mine(id) /\ Updates(s, CurrentMux(id, d))
       IN  /\ is_valid_' = [s \in Signal |-> updated(s) \/ is_valid_[s]]
           /\ age' = [s \in Signal |-> IF updated(s) THEN 0 ELSE age[s]]
    /\ UNCHANGED <<last_rolling_counter_, seen, silence, branch, from, accepted,
                   m_invalid_frames, errors, diagnosed, unparsed>>

\* Mutant: update sets the time before it looks at the branch.
HandleValidRefreshing(id, d) ==
    /\ ~ Diagnosed(id) /\ isInWhitelist(id) /\ hasMessage(id)
    /\ isFrameValid(id, d)
    /\ Count
    /\ m_valid_frames' = m_valid_frames + 1
    /\ is_valid_' = [s \in Signal |->
           IF s \in Mine(id) THEN Updates(s, CurrentMux(id, d)) ELSE is_valid_[s]]
    /\ age' = [s \in Signal |-> IF s \in Mine(id) THEN 0 ELSE age[s]]
    /\ silence' = [s \in Signal |-> IF Carries(id, d, s) THEN 0 ELSE silence[s]]
    /\ UNCHANGED <<last_rolling_counter_, seen, branch, from, accepted,
                   m_invalid_frames, errors, diagnosed, unparsed>>

\* parse: the counter is remembered, then every signal updated.  The checksum
\* field is right for the other bytes, which calculateChecksum does not read, or
\* it is not.
HandleValid(id, d) ==
    /\ ~ Diagnosed(id) /\ isInWhitelist(id) /\ hasMessage(id)
    /\ isFrameValid(id, d)
    /\ Count
    /\ m_valid_frames' = m_valid_frames + 1
    /\ last_rolling_counter_' =
           IF id \in hasCounter
             THEN [last_rolling_counter_ EXCEPT ![id] = d.counter]
             ELSE last_rolling_counter_
    /\ LET mux == CurrentMux(id, d)
       IN  /\ is_valid_' = [s \in Signal |->
                  IF s \in Mine(id) THEN Updates(s, mux) ELSE is_valid_[s]]
           /\ age' = [s \in Signal |->
                  IF s \in Mine(id) /\ Updates(s, mux) THEN 0 ELSE age[s]]
           /\ branch' = [s \in Signal |-> IF s \in Mine(id) THEN mux ELSE branch[s]]
    /\ seen' = [seen EXCEPT ![id] = TRUE]
    /\ silence' = [s \in Signal |-> IF Carries(id, d, s) THEN 0 ELSE silence[s]]
    /\ from' = {id}
    /\ accepted' \in {(id \in hasChecksum => right) : right \in BOOLEAN}
    /\ UNCHANGED <<m_invalid_frames, errors, diagnosed, unparsed>>

\* consumer_task counts the frame before it looks at its id.
incrementFrame ==
    /\ m_total_frames < MaxFrames
    /\ m_total_frames' = m_total_frames + 1
    /\ counted' = counted + 1
    /\ UNCHANGED <<settings, signals, m_valid_frames, m_invalid_frames, errors,
                   diagnosed, unparsed, calls>>
-----------------------------------------------------------------------------
(***************************************************************************)
(* Set-up, which may happen at any time, and the passing of time.          *)
(***************************************************************************)
Call ==
    /\ calls < MaxCalls
    /\ calls' = calls + 1
    /\ UNCHANGED <<m_total_frames, m_valid_frames, m_invalid_frames, errors, ghosts,
                   from, accepted>>

Filter ==
    /\ Call
    /\ UNCHANGED <<hasCounter, hasChecksum, registry, last_rolling_counter_, seen, updates>>

\* addToWhitelist, removeFromWhitelist and clearWhitelist.
ChangeWhitelist ==
    /\ Filter
    /\ \/ \E id \in Id : whitelist_' \in {whitelist_ \cup {id}, whitelist_ \ {id}}
       \/ whitelist_' = {}
    /\ UNCHANGED <<whitelist_enabled_, diagnostic_mode_enabled_>>

enableWhitelist ==
    /\ Filter
    /\ whitelist_enabled_' \in BOOLEAN
    /\ UNCHANGED <<whitelist_, diagnostic_mode_enabled_>>

enableDiagnosticMode ==
    /\ Filter
    /\ diagnostic_mode_enabled_' \in BOOLEAN
    /\ UNCHANGED <<whitelist_, whitelist_enabled_>>

Configure(id) ==
    /\ hasMessage(id)
    /\ Call
    /\ UNCHANGED <<filters, registry, updates>>

ForgetCounter(id) ==
    /\ last_rolling_counter_' = [last_rolling_counter_ EXCEPT ![id] = NoCounter]
    /\ seen' = [seen EXCEPT ![id] = FALSE]

\* Mutant: the counter is reset to -1, which no uint8_t holds.
setRollingCounterNegative(id) ==
    /\ Configure(id)
    /\ hasCounter' = hasCounter \cup {id}
    /\ last_rolling_counter_' = [last_rolling_counter_ EXCEPT ![id] = -1]
    /\ seen' = [seen EXCEPT ![id] = FALSE]
    /\ UNCHANGED hasChecksum

setRollingCounter(id) ==
    /\ Configure(id)
    /\ hasCounter' = hasCounter \cup {id}
    /\ ForgetCounter(id)
    /\ UNCHANGED hasChecksum

resetRollingCounter(id) ==
    /\ Configure(id)
    /\ ForgetCounter(id)
    /\ UNCHANGED <<hasCounter, hasChecksum>>

setChecksum(id) ==
    /\ Configure(id)
    /\ hasChecksum' = hasChecksum \cup {id}
    /\ UNCHANGED <<hasCounter, last_rolling_counter_, seen>>

\* A Signal is constructed, which starts its clock, and added to its message,
\* which there need not be yet.
registerSignal(s) ==
    /\ s \notin registered
    /\ registered' = registered \cup {s}
    /\ \E t \in Timeout[s] : threshold' = [threshold EXCEPT ![s] = t]
    /\ UNCHANGED <<filters, hasCounter, hasChecksum, signals, m_total_frames, m_valid_frames,
                   m_invalid_frames, errors, ghosts, calls>>

set_timeout_threshold(s) ==
    /\ s \in registered
    /\ Call
    /\ \E t \in Timeout[s] : threshold' = [threshold EXCEPT ![s] = t]
    /\ UNCHANGED <<filters, hasCounter, hasChecksum, registered, last_rolling_counter_,
                   seen, updates>>

Older(n) == IF n < MaxAge THEN n + 1 ELSE n

Tick ==
    /\ age' = [s \in Signal |-> IF s \in registered THEN Older(age[s]) ELSE 0]
    /\ silence' = [s \in Signal |-> IF s \in registered THEN Older(silence[s]) ELSE 0]
    /\ UNCHANGED <<settings, last_rolling_counter_, is_valid_, branch, seen, from, accepted,
                   m_total_frames, m_valid_frames, m_invalid_frames, errors, ghosts,
                   calls>>
-----------------------------------------------------------------------------
Frames ==
    \E id \in Id :
        \/ HandleDiagnostic(id)
        \/ HandleUnparsed(id)
        \/ \E d \in Data : HandleInvalid(id, d) \/ HandleValid(id, d)

SetUp ==
    \/ ChangeWhitelist
    \/ enableWhitelist
    \/ enableDiagnosticMode
    \/ \E id \in Id : setRollingCounter(id) \/ setChecksum(id) \/ resetRollingCounter(id)
    \/ \E s \in Signal : registerSignal(s) \/ set_timeout_threshold(s)

Next == Frames \/ incrementFrame \/ SetUp \/ Tick

Spec == Init /\ [][Next]_parserVars
-----------------------------------------------------------------------------
(***************************************************************************)
(* Properties.                                                             *)
(***************************************************************************)

\* Counters and totals stay in range; last_rolling_counter_ is a byte, with
\* 0xFF for none.
TypeOK ==
    /\ whitelist_ \subseteq Id
    /\ {whitelist_enabled_, diagnostic_mode_enabled_, accepted} \subseteq BOOLEAN
    /\ hasCounter \subseteq Id
    /\ hasChecksum \subseteq Id
    /\ registered \subseteq Signal
    /\ threshold \in [Signal -> 0 .. MaxAge]
    /\ last_rolling_counter_ \in [Id -> 0 .. 255]
    /\ is_valid_ \in [Signal -> BOOLEAN]
    /\ age \in [Signal -> 0 .. MaxAge]
    /\ seen \in [Id -> BOOLEAN]
    /\ silence \in [Signal -> 0 .. MaxAge]
    /\ branch \in [Signal -> MuxValues \cup {-1, Unheard}]
    /\ from \subseteq Id
    /\ {m_total_frames, m_valid_frames, m_invalid_frames, m_rolling_counter_errors,
        m_checksum_errors, diagnosed, counted, unparsed, calls} \subseteq Nat

\* Every frame is counted once as valid or invalid, unless it went to the
\* diagnostic plug-in; incrementFrame adds to the total and to nothing else.
TotalsAddUp ==
    m_total_frames = m_valid_frames + m_invalid_frames + diagnosed + counted

\* Every frame that failed validation is explained by one error, or by both:
\* handleFrame validates a frame again after it was rejected, and the two
\* answers agree because rejection changes nothing in between.
RejectionsExplained ==
    LET failed == m_invalid_frames - unparsed
    IN  /\ m_rolling_counter_errors <= failed
        /\ m_checksum_errors <= failed
        /\ failed <= m_rolling_counter_errors + m_checksum_errors

\* Two frames of a message accepted one after the other have consecutive
\* counters: only the first frame may have any value (can_parser.cpp:170).
NoSkippedCounter ==
    [][\A id \in from' \cap hasCounter :
           m_valid_frames' # m_valid_frames /\ seen[id]
               => last_rolling_counter_'[id] =
                      ExpectedAfter(last_rolling_counter_[id])]_parserVars

\* Signals of different branches of one multiplexor share their bits: they are
\* never valid together, also after frames that were rejected.
OneBranchValid ==
    \A s, t \in Multiplexed :
        MessageOf[s] = MessageOf[t] /\ is_valid_[s] /\ is_valid_[t]
            => MuxValue[s] = MuxValue[t]

\* A signal times out exactly when no frame with a value for it was accepted for
\* longer than its threshold, or never was and it was registered so long ago:
\* rejected frames do not refresh it, and neither do accepted frames of another
\* branch, so a branch that is not sent times out while its message arrives.
TimeoutsTrackAcceptance ==
    \A s \in registered :
        is_timeout(s) <=> threshold[s] # 0 /\ silence[s] > threshold[s]

\* The signals shown with [TIMEOUT] and those getTimeoutSignals counts on the
\* same dashboard differ in two cases only: a signal that was never updated
\* is marked before its threshold has passed (can_parser.cpp:65), and one of a
\* branch that is not the current one is counted and not marked.
MarksMatchCount ==
    \A s \in registered :
        /\ Marked(s) /\ ~ is_timeout(s) => branch[s] = Unheard
        /\ is_timeout(s) /\ ~ Marked(s) => s \in Multiplexed /\ branch[s] # MuxValue[s]

\* A frame whose checksum field is wrong is not accepted (the third case of
\* fault_tolerance_test, can_parser.cpp:721-723).
WrongChecksumRejected == accepted
=============================================================================
