------------------------ MODULE ValidatorRegistration ------------------------
(***************************************************************************)
(* The registration of validators: handleRegisterValidator, the channels   *)
(* activeValidatorC and validatorRegC with the processors behind them      *)
(* (services/api/service.go), the registration table (database.go) and the *)
(* timestamps in Redis (redis.go) by which the handler recognises what it  *)
(* has seen before, filled from the table when the housekeeper starts.     *)
(*                                                                         *)
(* A validator's fee recipient and gas limit are one value, prefs.  kind   *)
(* says where a registration fails, if it does: "refused" does not parse   *)
(* or lies too far in the future, "undecodable" is no valid JSON object,   *)
(* "unsigned" has a wrong signature.                                       *)
(***************************************************************************)
EXTENDS Naturals, Sequences

CONSTANTS
    Validators,
    Known,          \* the validators IsKnownValidator finds
    Handlers,       \* the callers of registerValidator
    Request,        \* handler -> the sequence of registrations it sends
    Processors,     \* the goroutines startValidatorRegistrationDBProcessor
    Housekeeper,    \* the start-up task of the housekeeper
    InitialRows,    \* validator -> its rows in the table at the start
    Nobody,
    QueueSize,      \* bound: the capacity of each channel, 450,000 in the code
    MaxFaults       \* bound: failing calls of Redis and of the database, restarts

Workers == Processors \cup {Housekeeper}

Kinds == {"good", "refused", "undecodable", "unsigned"}
Registration == [validator : Validators, timestamp : Nat \ {0}, prefs : Nat \ {0}, kind : Kinds]
Row == [timestamp : Nat \ {0}, prefs : Nat \ {0}]

\* what a worker saves; the housekeeper saves timestamps only
Task == [validator : Validators, timestamp : Nat \ {0}, prefs : Nat]

ASSUME BoundsAssumption ==
    QueueSize \in Nat \ {0} /\ MaxFaults \in Nat

ASSUME RegistrationAssumption ==
    /\ Known \subseteq Validators
    /\ Request \in [Handlers -> Seq(Registration)]
    /\ InitialRows \in [Validators -> SUBSET Row]
    /\ Housekeeper \notin Processors
    /\ Nobody \notin Validators

VARIABLES
    pc, index,      \* handler -> where it is, and at which registration
    activeC,        \* activeValidatorC
    validatorRegC,
    active,         \* the active validators in Redis
    stamp,          \* validator -> its registration timestamp in Redis, 0 if none
    rows,           \* validator -> its rows in the registration table
    at, saving,     \* worker -> where it is, and what it saves
    seen,           \* worker -> the row its SELECT found
    todo,           \* what the housekeeper still has to copy to Redis
    faults

handlers == <<pc, index>>
channels == <<activeC, validatorRegC>>
workers == <<at, saving, seen, todo>>
vars == <<handlers, channels, active, stamp, rows, workers, faults>>

\* no preferences are recorded yet
NoRow == [timestamp |-> 0, prefs |-> 0]

\* what an idle worker saves
NoTask == [validator |-> Nobody, timestamp |-> 0, prefs |-> 0]

Init ==
    /\ pc = [h \in Handlers |-> "idle"] /\ index = [h \in Handlers |-> 0]
    /\ activeC = <<>> /\ validatorRegC = <<>>
    /\ active = {}
    /\ stamp = [v \in Validators |-> 0]
    /\ rows = InitialRows
    /\ at = [w \in Workers |-> IF w = Housekeeper THEN "starting" ELSE "idle"]
    /\ saving = [w \in Workers |-> NoTask]
    /\ seen = [w \in Workers |-> NoRow]
    /\ todo = {}
    /\ faults = 0

Fault == faults < MaxFaults /\ faults' = faults + 1

\* "SELECT DISTINCT ON (pubkey) ... ORDER BY pubkey, timestamp DESC": one row,
\* as there are no two with the same timestamp
Latest(v) == {r \in rows[v] : \A q \in rows[v] : q.timestamp <= r.timestamp}

-----------------------------------------------------------------------------
(* handleRegisterValidator *)

Current(h) == Request[h][index[h]]

\* select { case c <- x: default: }
Offered(c, x) == IF Len(c) < QueueSize THEN Append(c, x) ELSE c

\* the next registration of the request, or the end of the handler
NextRegistration(h) ==
    IF index[h] < Len(Request[h])
    THEN pc' = [pc EXCEPT ![h] = "checking"] /\ index' = [index EXCEPT ![h] = @ + 1]
    ELSE pc' = [pc EXCEPT ![h] = "idle"] /\ index' = [index EXCEPT ![h] = 0]

\* respondError: the rest of the request is not processed
StopByError(h) == pc' = [pc EXCEPT ![h] = "idle"] /\ index' = [index EXCEPT ![h] = 0]

RegisterValidator(h) ==
    /\ pc[h] = "idle"
    /\ NextRegistration(h)
    /\ UNCHANGED <<channels, active, stamp, rows, workers, faults>>

\* the checks up to the timestamp in Redis; "abort if the current registration
\* timestamp is older or equal to the last known one"
CheckRegistration(h) ==
    /\ pc[h] = "checking"
    /\ LET r == Current(h)
       IN  IF r.kind = "refused" \/ r.validator \notin Known
           THEN StopByError(h) /\ UNCHANGED <<activeC, faults>>
           ELSE /\ activeC' = Offered(activeC, r.validator)
                /\ \/ /\ stamp[r.validator] >= r.timestamp
                      /\ NextRegistration(h) /\ UNCHANGED faults
                   \/ /\ stamp[r.validator] < r.timestamp
                      /\ pc' = [pc EXCEPT ![h] = "verifying"] /\ UNCHANGED <<index, faults>>
                   \/ /\ Fault
                      /\ pc' = [pc EXCEPT ![h] = "verifying"] /\ UNCHANGED index
    /\ UNCHANGED <<validatorRegC, active, stamp, rows, workers>>

\* the signature does not matter
EnqueueUnverified(h) ==
    /\ pc[h] = "verifying"
    /\ IF Current(h).kind = "undecodable"
       THEN StopByError(h) /\ UNCHANGED validatorRegC
       ELSE /\ validatorRegC' = Offered(validatorRegC, Current(h))
            /\ NextRegistration(h)
    /\ UNCHANGED <<activeC, active, stamp, rows, workers, faults>>

\* decode, verify the signature, "Save to database"; a wrong signature is
\* answered at once and does not stop the processing
Enqueue(h) ==
    /\ pc[h] = "verifying"
    /\ CASE Current(h).kind = "undecodable" -> StopByError(h) /\ UNCHANGED validatorRegC
         [] Current(h).kind = "unsigned" -> NextRegistration(h) /\ UNCHANGED validatorRegC
         [] OTHER -> /\ validatorRegC' = Offered(validatorRegC, Current(h))
                     /\ NextRegistration(h)
    /\ UNCHANGED <<activeC, active, stamp, rows, workers, faults>>

-----------------------------------------------------------------------------
(* The processors *)

\* startActiveValidatorProcessor and SetActiveValidator; an error is logged
ProcessActiveValidator ==
    /\ activeC # <<>>
    /\ activeC' = Tail(activeC)
    /\ \/ active' = active \cup {Head(activeC)} /\ UNCHANGED faults
       \/ Fault /\ UNCHANGED active
    /\ UNCHANGED <<handlers, validatorRegC, stamp, rows, workers>>

\* worker w goes on at x, or is done
Goto(w, x) == at' = [at EXCEPT ![w] = x]

Finished(w) ==
    /\ at' = [at EXCEPT ![w] = "idle"]
    /\ saving' = [saving EXCEPT ![w] = NoTask]
    /\ seen' = [seen EXCEPT ![w] = NoRow]

\* the next registration of validatorRegC; the database evaluates the SELECT
\* of the statement before it inserts
TakeRegistration(p) ==
    /\ at[p] = "idle" /\ validatorRegC # <<>>
    /\ LET r == Head(validatorRegC)
       IN  /\ saving' = [saving EXCEPT ![p] = [validator |-> r.validator,
                             timestamp |-> r.timestamp, prefs |-> r.prefs]]
           /\ \E row \in IF rows[r.validator] = {} THEN {NoRow} ELSE Latest(r.validator) :
                  seen' = [seen EXCEPT ![p] = row]
    /\ validatorRegC' = Tail(validatorRegC)
    /\ Goto(p, "inserting")
    /\ UNCHANGED <<handlers, activeC, active, stamp, rows, todo, faults>>

\* "WHERE NOT EXISTS (... :timestamp <= latest_registration.timestamp OR
\* (:fee_recipient = ... AND :gas_limit = ...))"
IsNews(p) == seen[p].timestamp < saving[p].timestamp /\ seen[p].prefs # saving[p].prefs

\* a failed statement does not keep the timestamp from Redis
InsertIgnoringErrors(p) ==
    /\ at[p] = "inserting"
    /\ \/ /\ rows' = [rows EXCEPT ![saving[p].validator] =
                         @ \cup {[timestamp |-> saving[p].timestamp, prefs |-> saving[p].prefs]}]
          /\ UNCHANGED faults
       \/ Fault /\ UNCHANGED rows
    /\ Goto(p, "reading")
    /\ UNCHANGED <<handlers, channels, active, stamp, saving, seen, todo>>

\* the goroutine ends with the first error
InsertOrGiveUp(p) ==
    /\ at[p] = "inserting"
    /\ \/ /\ rows' = [rows EXCEPT ![saving[p].validator] =
                         @ \cup {[timestamp |-> saving[p].timestamp, prefs |-> saving[p].prefs]}]
          /\ Goto(p, "reading")
          /\ UNCHANGED faults
       \/ Fault /\ Goto(p, "starting") /\ UNCHANGED rows
    /\ UNCHANGED <<handlers, channels, active, stamp, saving, seen, todo>>

\* the INSERT; an error, the unique index on (pubkey, timestamp) included, ends
\* SaveValidatorRegistration
InsertRegistration(p) ==
    /\ at[p] = "inserting"
    /\ LET v == saving[p].validator
           row == [timestamp |-> saving[p].timestamp, prefs |-> saving[p].prefs]
           conflict == IsNews(p) /\ \E q \in rows[v] : q.timestamp = row.timestamp
       IN  \/ /\ ~conflict
              /\ rows' = IF IsNews(p) THEN [rows EXCEPT ![v] = @ \cup {row}] ELSE rows
              /\ Goto(p, "reading")
              /\ UNCHANGED <<saving, seen, faults>>
           \/ /\ conflict
              /\ Finished(p) /\ UNCHANGED <<rows, faults>>
           \/ /\ Fault
              /\ Finished(p) /\ UNCHANGED rows
    /\ UNCHANGED <<handlers, channels, active, stamp, todo>>

\* SetValidatorRegistrationTimestampIfNewer, the read
ReadTimestamp(w) ==
    /\ at[w] = "reading"
    /\ \/ /\ stamp[saving[w].validator] < saving[w].timestamp
          /\ Goto(w, "writing") /\ UNCHANGED <<saving, seen, faults>>
       \/ /\ stamp[saving[w].validator] >= saving[w].timestamp
          /\ Finished(w) /\ UNCHANGED faults
       \/ /\ Fault
          /\ Finished(w)
    /\ UNCHANGED <<handlers, channels, active, stamp, rows, todo>>

\* ... and the write
SetTimestamp(w) ==
    /\ at[w] = "writing"
    /\ \/ /\ stamp' = [stamp EXCEPT ![saving[w].validator] = saving[w].timestamp]
          /\ UNCHANGED faults
       \/ Fault /\ UNCHANGED stamp
    /\ Finished(w)
    /\ UNCHANGED <<handlers, channels, active, rows, todo>>

-----------------------------------------------------------------------------
(* updateValidatorRegistrationsInRedis *)

\* GetLatestValidatorRegistrations
ReadLatestRegistrations ==
    /\ at[Housekeeper] = "starting"
    /\ \/ /\ todo' = UNION {{[validator |-> v, timestamp |-> r.timestamp, prefs |-> 0] :
                                   r \in Latest(v)} : v \in Validators}
          /\ UNCHANGED faults
       \/ Fault /\ UNCHANGED todo
    /\ Goto(Housekeeper, "idle")
    /\ UNCHANGED <<handlers, channels, active, stamp, rows, saving, seen>>

\* the next turn of the loop
TakeLatest ==
    /\ at[Housekeeper] = "idle"
    /\ \E t \in todo : saving' = [saving EXCEPT ![Housekeeper] = t] /\ todo' = todo \ {t}
    /\ Goto(Housekeeper, "reading")
    /\ UNCHANGED <<handlers, channels, active, stamp, rows, seen, faults>>

-----------------------------------------------------------------------------
\* The API is restarted: its requests, its channels and what its processors
\* were doing is lost; the database and Redis stay.
Restart ==
    /\ Fault
    /\ pc' = [h \in Handlers |-> "idle"] /\ index' = [h \in Handlers |-> 0]
    /\ activeC' = <<>> /\ validatorRegC' = <<>>
    /\ at' = [w \in Workers |-> IF w = Housekeeper THEN at[w] ELSE "idle"]
    /\ saving' = [w \in Workers |-> IF w = Housekeeper THEN saving[w] ELSE NoTask]
    /\ seen' = [w \in Workers |-> NoRow]
    /\ UNCHANGED <<active, stamp, rows, todo>>

HandleRegisterValidator(h) == CheckRegistration(h) \/ Enqueue(h)

DBProcessor(p) ==
    TakeRegistration(p) \/ InsertRegistration(p) \/ ReadTimestamp(p) \/ SetTimestamp(p)

UpdateValidatorRegistrationsInRedis ==
    \/ ReadLatestRegistrations \/ TakeLatest
    \/ ReadTimestamp(Housekeeper) \/ SetTimestamp(Housekeeper)

Next ==
    \/ \E h \in Handlers : RegisterValidator(h) \/ HandleRegisterValidator(h)
    \/ ProcessActiveValidator
    \/ \E p \in Processors : DBProcessor(p)
    \/ UpdateValidatorRegistrationsInRedis
    \/ Restart

\* Goroutines run, Redis and the database answer or fail, and the validators
\* send their registrations again and again, as validator clients do.
Fairness ==
    /\ \A h \in Handlers : WF_vars(RegisterValidator(h)) /\ WF_vars(HandleRegisterValidator(h))
    /\ WF_vars(ProcessActiveValidator)
    /\ \A p \in Processors : WF_vars(DBProcessor(p))
    /\ WF_vars(UpdateValidatorRegistrationsInRedis)

Spec == Init /\ [][Next]_vars
FairSpec == Spec /\ Fairness

-----------------------------------------------------------------------------
TypeOK ==
    /\ pc \in [Handlers -> {"idle", "checking", "verifying"}]
    /\ index \in [Handlers -> Nat]
    /\ \A h \in Handlers : index[h] \in IF pc[h] = "idle" THEN {0} ELSE 1..Len(Request[h])
    /\ activeC \in Seq(Validators) /\ Len(activeC) <= QueueSize
    /\ validatorRegC \in Seq(Registration) /\ Len(validatorRegC) <= QueueSize
    /\ active \subseteq Validators
    /\ stamp \in [Validators -> Nat]
    /\ rows \in [Validators -> SUBSET Row]
    /\ at \in [Workers -> {"starting", "idle", "inserting", "reading", "writing"}]
    /\ saving \in [Workers -> Task \cup {NoTask}]
    /\ seen \in [Workers -> Row \cup {NoRow}]
    /\ todo \subseteq Task
    /\ faults \in Nat

\* a known validator signed a registration with these fields, and sent it
Signed(v, timestamp, prefs) ==
    /\ v \in Known
    /\ \E h \in Handlers : \E i \in 1..Len(Request[h]) :
           Request[h][i] = [validator |-> v, timestamp |-> timestamp,
                            prefs |-> prefs, kind |-> "good"]

\* Only what a known validator signed gets into the table, whatever the other
\* registrations of its request were: a wrong signature does not stop the loop.
OnlySignedAreSaved ==
    \A v \in Validators : \A row \in rows[v] \ InitialRows[v] :
        Signed(v, row.timestamp, row.prefs)

\* "First save in the database ... then save in redis": the handler drops what
\* is not newer than the timestamp in Redis, so there is a timestamp only for
\* validators that are in the table, whatever fails or is restarted between
\* the two writes.
FilteredAreRegistered == \A v \in Validators : stamp[v] # 0 => rows[v] # {}

\* A known validator that keeps sending a registration ends up in the table,
\* although the channel drops registrations when it is full, calls fail and
\* the API restarts.
SendersAreRegistered ==
    \A h \in Handlers : \A i \in 1..Len(Request[h]) :
        LET r == Request[h][i]
        IN  /\ r.kind = "good" /\ r.validator \in Known
            /\ \A j \in 1..(i - 1) :
                   /\ Request[h][j].kind \in {"good", "unsigned"}
                   /\ Request[h][j].validator \in Known
            => <>(rows[r.validator] # {})

\* "abort if the current registration timestamp is older or equal to the last
\* known one": when nothing is being saved, the registration in force (the
\* latest row) has the preferences of the last known one, whose timestamp is in
\* Redis.
LatestRegistrationWins ==
    validatorRegC = <<>> /\ (\A w \in Workers : at[w] = "idle") =>
        \A v \in Validators : \A r \in Latest(v) :
            stamp[v] > r.timestamp => Signed(v, stamp[v], r.prefs)

\* "Try to set an older timestamp (should not work)": no step of a processor or of
\* the housekeeper replaces the timestamp of a validator by an older one.
TimestampNeverGoesBack == [][\A v \in Validators : stamp'[v] >= stamp[v]]_vars
=============================================================================
