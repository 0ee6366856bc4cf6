------------------------- MODULE NotificationDispatcher -------------------------
(***************************************************************************)
(* The notification job of apps/api: a cron-started process that reads the *)
(* changes of the schedule table behind a watermark, folds them per item,  *)
(* and pushes one message per user through FCM, using a cursor and a table *)
(* of claimed deliveries to survive failures, restarts and overlapping     *)
(* runs.  Each action is one database statement or one FCM call with the   *)
(* local computation that follows it; runs, the collector and the users    *)
(* interleave between them.                                                *)
(***************************************************************************)
EXTENDS ScheduleFeed

CONSTANTS
  Users, Tokens,      \* accounts and device tokens
  Runs,               \* processes of the job that may be alive at once
  None,               \* JavaScript null
  Lag,                \* WATERMARK_LAG_SECONDS
  Resolution,         \* database ticks in one millisecond of a JS Date
  Limit,              \* CHANGE_BATCH_LIMIT
  MaxDevices,         \* MAX_DEVICES_PER_USER
  InitialFavorites, InitialDevices,
  MaxEdits,           \* bound: calls of users while the model runs
  MaxCrashes,         \* bound: processes killed
  MaxDisturbances     \* bound: both together

ASSUME DispatcherAssumption ==
  /\ Lag \in Nat /\ MaxTxn < Lag
  /\ Resolution \in Nat \ {0}
  /\ Limit \in Nat \ {0}
  /\ None \notin Users \cup Int
  /\ InitialFavorites \subseteq Users \X Items
  /\ InitialDevices \subseteq [token : Tokens, user : Users, seen : Int]
  /\ \A d, e \in InitialDevices : d.token = e.token => d = e

VARIABLES
  accounts,           \* app_user
  favorites,          \* favorite: pairs of user and item
  devices,            \* device_token: records [token, user, seen]
  ledger,             \* notification_delivery: pairs of user and dedupe key
  cursor,             \* notification_cursor, or None
  run,                \* the local state of each process
  \* what happened, for the properties only
  acked,              \* pushes FCM accepted: [user, token, key, ids]
  owed,               \* <<u, id>>: change id has not reached favoriting user u
  \* counters behind the bounds
  edits, crashes

userVars == <<accounts, favorites, devices>>
bounds == <<edits, crashes>>
vars == <<clock, rows, page, accounts, favorites, devices, ledger, cursor,
          run, acked, owed, edits, crashes>>

-----------------------------------------------------------------------------
\* Timestamps: the driver turns a timestamptz into a Date, dropping what is
\* below a millisecond.

ToDate(t) == (t \div Resolution) * Resolution
\* Faulty: reading up to the present.
WatermarkWithoutLag == ToDate(clock)
SafeWatermark == ToDate(clock - Lag)

-----------------------------------------------------------------------------
\* Jobs: what one run has to deliver.

ScheduleKey(s) == <<"schedule", s.id>>
RemindKey(s, t) == <<"remind", s.item, Day(s.val.bid), KstDaysUntil(s.val.bid, t)>>

\* toChangeMessage: from the state before the first change to the last one.
ChangeMessage(group) ==
  UNION {ChangeSentences(Latest(Predecessors(p)).val, Latest(group).val) :
           p \in {q \in {Earliest(group)} : Predecessors(q) # {}}}

\* Faulty: a checkpoint below the precision of a Date.
ChangeJobInMicroseconds(group) ==
  [kind |-> "schedule", item |-> Latest(group).item,
   key |-> ScheduleKey(Latest(group)), ids |-> {s.id : s \in group},
   first |-> Earliest(group), observedAt |-> Latest(group).obs,
   message |-> ChangeMessage(group)]

ChangeJob(group) ==
  [kind |-> "schedule", item |-> Latest(group).item,
   key |-> ScheduleKey(Latest(group)), ids |-> {s.id : s \in group},
   first |-> Earliest(group), observedAt |-> ToDate(Latest(group).obs),
   message |-> ChangeMessage(group)]

FavoriteItems == {f[2] : f \in favorites}

\* Faulty: looking back past the cursor by the lag once more.
FindChangesWithOverlap(since, through) ==
  LET found == {s \in rows : /\ s.obs >= since - Lag /\ s.obs <= through
                             /\ s.item \in FavoriteItems}
  IN  {s \in found : Cardinality({q \in found : Before(q, s)}) < Limit}

FindScheduleChanges(since, through) ==
  LET found == {s \in rows : /\ s.obs > since /\ s.obs <= through
                             /\ s.item \in FavoriteItems}
  IN  {s \in found : Cardinality({q \in found : Before(q, s)}) < Limit}

GroupByItem(changes) ==
  {ChangeJob({s \in changes : s.item = i}) : i \in {s.item : s \in changes}}

\* The newest observation of a favorite item, if it announces a bid date.
FindReminderCandidates(from, to) ==
  {s \in rows : /\ s.item \in FavoriteItems
                /\ \A q \in rows : q.item = s.item => q.obs <= s.obs
                /\ s.val.bid # NoValue /\ s.val.bid > from /\ s.val.bid < to}

ReminderJob(s, now) ==
  [kind |-> "reminder", item |-> s.item, key |-> RemindKey(s, now), ids |-> {},
   first |-> s, observedAt |-> 0, message |-> {"bid"}]

ReminderJobs(now) ==
  {ReminderJob(s, now) :
     s \in {c \in FindReminderCandidates(now, now + ReminderWindowDays * DayLength) :
              KstDaysUntil(c.val.bid, now) \in ReminderDays}}

\* The tokens of everyone who favorites the item.
FindTokensForFavorite(item) ==
  {<<d.user, d.token>> : d \in {e \in devices : <<e.user, item>> \in favorites}}

-----------------------------------------------------------------------------
\* The local state of a process.

NoJob == [kind |-> "none"]

Idle == [pc |-> "idle", startedAt |-> 0, watermark |-> 0, since |-> 0,
         phase |-> "schedule", todo |-> {}, checkpoint |-> None,
         blocked |-> FALSE, job |-> NoJob, targets |-> {},
         allDelivered |-> TRUE, user |-> None, anySent |-> FALSE]

Init ==
  /\ FeedInit(Lag)
  /\ accounts = Users
  /\ favorites = InitialFavorites
  /\ devices = InitialDevices
  /\ ledger = {}
  /\ cursor = None
  /\ run = [r \in Runs |-> Idle]
  /\ acked = {} /\ owed = {}
  /\ edits = 0 /\ crashes = 0

At(r, label) == run[r].pc = label

\* A step that changes nothing but the process itself.
Local(r, state) ==
  /\ run' = [run EXCEPT ![r] = state]
  /\ UNCHANGED <<feedVars, userVars, ledger, cursor, acked, owed, bounds>>

-----------------------------------------------------------------------------
\* run() and processScheduleChanges()

\* A run that starts in the quiet hours returns at once: nothing happens.
StartRun(r) ==
  /\ At(r, "idle")
  /\ ~IsQuietHour(clock)
  /\ Local(r, [Idle EXCEPT !.pc = "cursor", !.startedAt = clock,
                           !.watermark = SafeWatermark])

\* No cursor yet: history is not announced, the feed starts at the watermark.
ReadNoCursor(r) ==
  /\ At(r, "cursor")
  /\ cursor = None
  /\ run' = [run EXCEPT ![r].pc = "advance", ![r].checkpoint = run[r].watermark]
  /\ owed' = {o \in owed : \A s \in rows : s.id = o[2] => s.obs > run[r].watermark}
  /\ UNCHANGED <<feedVars, userVars, ledger, cursor, acked, bounds>>

ReadCursor(r) ==
  /\ At(r, "cursor")
  /\ cursor # None
  /\ Local(r, [run[r] EXCEPT
       !.since = cursor,
       !.pc = IF run[r].watermark <= cursor THEN "reminders" ELSE "changes"])

FindChanges(r) ==
  /\ At(r, "changes")
  /\ LET changes == FindScheduleChanges(run[r].since, run[r].watermark)
     IN  Local(r, [run[r] EXCEPT
           !.pc = "jobs", !.todo = GroupByItem(changes),
           !.checkpoint = IF Cardinality(changes) < Limit
                          THEN run[r].watermark ELSE None])

\* Faulty: a failed group does not hold the checkpoint back.
AfterJobUnblocked(state, job, delivered) ==
  [state EXCEPT
     !.pc = "jobs", !.todo = @ \ {job}, !.job = NoJob, !.targets = {},
     !.allDelivered = TRUE,
     !.checkpoint = IF job.kind = "schedule" THEN job.observedAt ELSE @]

\* The bookkeeping after one group; reminders move no checkpoint.
AfterJob(state, job, delivered) ==
  LET blocked == state.blocked \/ (job.kind = "schedule" /\ ~delivered)
  IN  [state EXCEPT
         !.pc = "jobs", !.todo = @ \ {job}, !.job = NoJob, !.targets = {},
         !.allDelivered = TRUE, !.blocked = blocked,
         !.checkpoint = IF job.kind = "schedule" /\ ~blocked
                        THEN job.observedAt ELSE @]

\* Groups come in the order of their first row; reminders in any order.
NextJobs(r) ==
  {j \in run[r].todo : j.kind = "schedule" =>
     \A k \in run[r].todo : ~Before(k.first, j.first)}

\* A group without a message counts as delivered.
SkipJob(r) ==
  /\ At(r, "jobs")
  /\ \E job \in NextJobs(r) :
       /\ job.message = {}
       /\ run' = [run EXCEPT ![r] = AfterJob(@, job, TRUE)]
       /\ owed' = {o \in owed : o[2] \notin job.ids}
  /\ UNCHANGED <<feedVars, userVars, ledger, cursor, acked, bounds>>

\* deliver() starts by reading the tokens; who has none is owed nothing.
FindTokens(r) ==
  /\ At(r, "jobs")
  /\ \E job \in NextJobs(r) :
       LET targets == FindTokensForFavorite(job.item)
       IN  /\ job.message # {}
           /\ run' = [run EXCEPT ![r].pc = "users", ![r].job = job,
                                 ![r].targets = targets]
           /\ owed' = {o \in owed : o[2] \in job.ids => \E t \in targets : t[1] = o[1]}
  /\ UNCHANGED <<feedVars, userVars, ledger, cursor, acked, bounds>>

\* All jobs of the phase are done: where the cursor goes, if anywhere.
EndSchedule(r) ==
  /\ At(r, "jobs") /\ run[r].todo = {} /\ run[r].phase = "schedule"
  /\ Local(r, [run[r] EXCEPT
       !.pc = IF run[r].blocked THEN "reminders" ELSE "advance",
       !.checkpoint = IF @ = None THEN run[r].watermark ELSE @])

AdvanceCursor(r) ==
  /\ At(r, "advance")
  /\ cursor' = run[r].checkpoint
  /\ run' = [run EXCEPT ![r].pc = "reminders"]
  /\ UNCHANGED <<feedVars, userVars, ledger, acked, owed, bounds>>

\* processReminders(): its clock is the one read when the run started.
FindReminders(r) ==
  /\ At(r, "reminders")
  /\ Local(r, [Idle EXCEPT !.pc = "jobs", !.phase = "reminder",
                           !.startedAt = run[r].startedAt,
                           !.todo = ReminderJobs(run[r].startedAt)])

EndRun(r) ==
  /\ At(r, "jobs") /\ run[r].todo = {} /\ run[r].phase = "reminder"
  /\ Local(r, Idle)

-----------------------------------------------------------------------------
\* deliver(): one user after the other, one device after the other

Remaining(r) == {t[1] : t \in run[r].targets}
TokensLeft(r) == {t[2] : t \in {p \in run[r].targets : p[1] = run[r].user}}
Pair(r) == <<run[r].user, run[r].job.key>>
WithoutUser(targets, u) == {t \in targets : t[1] # u}

\* INSERT ... ON CONFLICT DO NOTHING found the row: counted as delivered.
Deduplicate(r, u) ==
  /\ At(r, "users")
  /\ u \in Remaining(r) /\ u \in accounts
  /\ <<u, run[r].job.key>> \in ledger
  /\ Local(r, [run[r] EXCEPT !.targets = WithoutUser(@, u)])

\* Faulty: an upsert that returns the row it found.
ClaimByUpsert(r, u) ==
  /\ At(r, "users")
  /\ u \in Remaining(r) /\ u \in accounts
  /\ ledger' = ledger \cup {<<u, run[r].job.key>>}
  /\ run' = [run EXCEPT ![r].pc = "send", ![r].user = u, ![r].anySent = FALSE]
  /\ UNCHANGED <<feedVars, userVars, cursor, acked, owed, bounds>>

ClaimDelivery(r, u) ==
  /\ At(r, "users")
  /\ u \in Remaining(r) /\ u \in accounts
  /\ <<u, run[r].job.key>> \notin ledger
  /\ ledger' = ledger \cup {<<u, run[r].job.key>>}
  /\ run' = [run EXCEPT ![r].pc = "send", ![r].user = u, ![r].anySent = FALSE]
  /\ UNCHANGED <<feedVars, userVars, cursor, acked, owed, bounds>>

\* The account is gone: the foreign key fails and the error leaves run().
ClaimFails(r, u) ==
  /\ At(r, "users")
  /\ u \in Remaining(r) \ accounts
  /\ Local(r, Idle)

SendAccepted(r, t) ==
  /\ At(r, "send")
  /\ t \in TokensLeft(r)
  /\ acked' = acked \cup {[user |-> run[r].user, token |-> t,
                           key |-> run[r].job.key, ids |-> run[r].job.ids]}
  /\ owed' = {o \in owed : o[1] = run[r].user => o[2] \notin run[r].job.ids}
  /\ run' = [run EXCEPT ![r].anySent = TRUE,
                        ![r].targets = @ \ {<<run[r].user, t>>}]
  /\ UNCHANGED <<feedVars, userVars, ledger, cursor, bounds>>

SendFailed(r, t) ==
  /\ At(r, "send")
  /\ t \in TokensLeft(r)
  /\ Local(r, [run[r] EXCEPT !.allDelivered = FALSE,
                             !.targets = @ \ {<<run[r].user, t>>}])

\* FCM says the token is dead: its row is deleted whoever owns it.
SendUnregistered(r, t) ==
  /\ At(r, "send")
  /\ t \in TokensLeft(r)
  /\ devices' = {d \in devices : d.token # t}
  /\ run' = [run EXCEPT ![r].targets = @ \ {<<run[r].user, t>>}]
  /\ UNCHANGED <<feedVars, accounts, favorites, ledger, cursor, acked, owed, bounds>>

\* No access token, or any other exception: the rest is abandoned.
SendThrows(r) ==
  /\ At(r, "send")
  /\ TokensLeft(r) # {}
  /\ Local(r, [run[r] EXCEPT !.pc = "abort"])

\* Faulty: giving the claim back as soon as one device failed.
ReleaseOnAnyFailure(r) ==
  ledger' = IF run[r].anySent /\ run[r].allDelivered THEN ledger ELSE ledger \ {Pair(r)}

\* Faulty: keeping every claim.
NeverRelease(r) == ledger' = ledger

\* The finally block: a user nobody could reach is unclaimed again.
ReleaseUnlessSent(r) ==
  ledger' = IF run[r].anySent THEN ledger ELSE ledger \ {Pair(r)}

FinishUser(r) ==
  /\ At(r, "send")
  /\ TokensLeft(r) = {}
  /\ ReleaseUnlessSent(r)
  /\ run' = [run EXCEPT ![r].pc = "users", ![r].user = None, ![r].anySent = FALSE,
                        ![r].allDelivered = @ /\ run[r].anySent]
  /\ UNCHANGED <<feedVars, userVars, cursor, acked, owed, bounds>>

\* The exception leaves run() with the cursor where it was.
AbortRun(r) ==
  /\ At(r, "abort")
  /\ ReleaseUnlessSent(r)
  /\ run' = [run EXCEPT ![r] = Idle]
  /\ UNCHANGED <<feedVars, userVars, cursor, acked, owed, bounds>>

DeliverReturns(r) ==
  /\ At(r, "users")
  /\ run[r].targets = {}
  /\ Local(r, AfterJob(run[r], run[r].job, run[r].allDelivered))

\* The process is killed, or a database call of the finally block fails.
Crash(r) ==
  /\ ~At(r, "idle")
  /\ crashes < MaxCrashes /\ edits + crashes < MaxDisturbances
  /\ crashes' = crashes + 1
  /\ run' = [run EXCEPT ![r] = Idle]
  /\ UNCHANGED <<feedVars, userVars, ledger, cursor, acked, owed, edits>>

-----------------------------------------------------------------------------
\* What users do meanwhile

UserCall ==
  /\ edits < MaxEdits /\ edits + crashes < MaxDisturbances
  /\ edits' = edits + 1
  /\ UNCHANGED <<feedVars, cursor, run, acked, crashes>>

AddFavorite(u, i) ==
  /\ UserCall
  /\ u \in accounts /\ <<u, i>> \notin favorites
  /\ favorites' = favorites \cup {<<u, i>>}
  /\ UNCHANGED <<accounts, devices, ledger, owed>>

RemoveFavorite(u, i) ==
  /\ UserCall
  /\ <<u, i>> \in favorites
  /\ favorites' = favorites \ {<<u, i>>}
  /\ owed' = {o \in owed : o[1] = u => \A s \in rows : s.id = o[2] => s.item # i}
  /\ UNCHANGED <<accounts, devices, ledger>>

\* upsertDeviceToken: a token of another account stays with that account.
UpsertDeviceToken(u, t) ==
  IF \E d \in devices : d.token = t /\ d.user # u THEN devices
  ELSE {d \in devices : d.token # t} \cup {[token |-> t, user |-> u, seen |-> edits + 1]}

\* pruneDeviceTokens: the most recently seen MaxDevices rows stay.
PruneDeviceTokens(table, u) ==
  {d \in table : d.user = u =>
     Cardinality({e \in table : e.user = u /\ e.seen > d.seen}) < MaxDevices}

RegisterDevice(u, t) ==
  /\ UserCall
  /\ u \in accounts
  /\ devices' = PruneDeviceTokens(UpsertDeviceToken(u, t), u)
  /\ UNCHANGED <<accounts, favorites, ledger, owed>>

UnregisterDevice(u, t) ==
  /\ UserCall
  /\ \E d \in devices : d.token = t /\ d.user = u
  /\ devices' = {d \in devices : ~(d.token = t /\ d.user = u)}
  /\ UNCHANGED <<accounts, favorites, ledger, owed>>

\* deleteUser: favorites, tokens and delivery rows go with ON DELETE CASCADE.
DeleteUser(u) ==
  /\ UserCall
  /\ u \in accounts
  /\ accounts' = accounts \ {u}
  /\ favorites' = {f \in favorites : f[1] # u}
  /\ devices' = {d \in devices : d.user # u}
  /\ ledger' = {p \in ledger : p[1] # u}
  /\ owed' = {o \in owed : o[1] # u}

-----------------------------------------------------------------------------
\* The collector and the clock, seen from the whole system

CommitFeed ==
  /\ CommitPage
  /\ owed' = owed \cup {o \in Users \X {s.id : s \in page.rows} :
       \E s \in page.rows : s.id = o[2] /\ <<o[1], s.item>> \in favorites}
  /\ UNCHANGED <<userVars, ledger, cursor, run, acked, bounds>>

OtherFeed ==
  /\ \/ BeginPage \/ AbortPage \/ Tick
     \/ \E i \in Items, v \in Values : InsertScheduleSnapshot(i, v)
  /\ UNCHANGED <<userVars, ledger, cursor, run, acked, owed, bounds>>

RunStep(r) ==
  \/ StartRun(r) \/ ReadNoCursor(r) \/ ReadCursor(r) \/ FindChanges(r)
  \/ SkipJob(r) \/ FindTokens(r) \/ EndSchedule(r) \/ AdvanceCursor(r)
  \/ FindReminders(r) \/ EndRun(r) \/ DeliverReturns(r)
  \/ FinishUser(r) \/ AbortRun(r) \/ SendThrows(r)
  \/ \E u \in Users : Deduplicate(r, u) \/ ClaimDelivery(r, u) \/ ClaimFails(r, u)
  \/ \E t \in Tokens : SendAccepted(r, t) \/ SendFailed(r, t) \/ SendUnregistered(r, t)

UserStep ==
  \E u \in Users :
    \/ \E i \in Items : AddFavorite(u, i) \/ RemoveFavorite(u, i)
    \/ \E t \in Tokens : RegisterDevice(u, t) \/ UnregisterDevice(u, t)
    \/ DeleteUser(u)

Next ==
  \/ CommitFeed \/ OtherFeed \/ UserStep
  \/ \E r \in Runs : RunStep(r) \/ Crash(r)

Spec == Init /\ [][Next]_vars

(* The database clock runs and the collector closes its transactions; cron *)
(* keeps starting the job and its processes keep running; and a device     *)
(* that is tried again and again is reached in the end.                    *)
Fairness ==
  /\ WF_vars(Tick /\ OtherFeed) /\ WF_vars(CommitFeed)
  /\ \A r \in Runs : WF_vars(RunStep(r))
  /\ \A r \in Runs, t \in Tokens : SF_vars(SendAccepted(r, t))

FairSpec == Spec /\ Fairness

-----------------------------------------------------------------------------
\* Properties

Labels == {"idle", "cursor", "changes", "advance", "jobs", "users", "send",
           "abort", "reminders"}

\* The times a JS Date can hold.
Dates == {t \in Int : t = ToDate(t)}

Keys == ({"schedule"} \X Nat) \cup ({"remind"} \X Items \X Int \X Int)

Job == [kind : {"schedule", "reminder"}, item : Items, key : Keys,
        ids : SUBSET (1 .. MaxRows), first : Row, observedAt : Dates,
        message : SUBSET {"failed", "price", "bid"}]

Process == [pc : Labels, startedAt : Int, watermark : Dates, since : Dates,
            phase : {"schedule", "reminder"}, todo : SUBSET Job,
            checkpoint : Dates \cup {None}, blocked : BOOLEAN,
            job : Job \cup {NoJob}, targets : SUBSET (Users \X Tokens),
            allDelivered : BOOLEAN, user : Users \cup {None}, anySent : BOOLEAN]

Coherent(p) ==
  /\ p.user # None <=> p.pc \in {"send", "abort"}
  /\ p.pc \in {"users", "send", "abort"} => p.job \in p.todo

(* Shapes of the state.  The cursor and every checkpoint on the way to it  *)
(* are values a JS Date can hold, a device token belongs to one account,   *)
(* what hangs on an account goes with it, and a process holds a user       *)
(* exactly while it is delivering one of its jobs to that user.            *)
TypeOK ==
  /\ clock \in Nat /\ rows \subseteq Row
  /\ page \in [open : BOOLEAN, start : Nat, rows : SUBSET Row]
  /\ accounts \subseteq Users /\ favorites \subseteq accounts \X Items
  /\ devices \subseteq [token : Tokens, user : accounts, seen : Int]
  /\ \A d, e \in devices : d.token = e.token => d = e
  /\ ledger \subseteq accounts \X Keys
  /\ cursor \in Dates \cup {None}
  /\ owed \subseteq accounts \X (1 .. MaxRows)
  /\ acked \subseteq [user : Users, token : Tokens, key : Keys,
                       ids : SUBSET (1 .. MaxRows)]
  /\ edits \in Nat /\ crashes \in Nat
  /\ run \in [Runs -> Process]
  /\ \A r \in Runs : Coherent(run[r])

(* Whenever a process is still going to push a message to a device of the  *)
(* user it has claimed, no process has had that push accepted before:      *)
(* restarts, retries and overlapping runs push one key to one device of    *)
(* one user at most once.                                                  *)
NoSecondPush ==
  \A r \in Runs : At(r, "send") =>
    \A a \in acked : a.user = run[r].user /\ a.key = run[r].job.key
                       => a.token \notin TokensLeft(r)

(* No row ever becomes visible at or behind the cursor, although its       *)
(* observed_at is older than its commit: the lag keeps the cursor behind   *)
(* every open transaction of the collector.                                *)
CommitsAheadOfCursor ==
  page.open /\ cursor # None => cursor < page.start

\* A process may still bring change o[2] to user o[1].
OnItsWay(o) ==
  \E r \in Runs : /\ At(r, "send") /\ TokensLeft(r) # {}
                  /\ run[r].user = o[1] /\ o[2] \in run[r].job.ids

\* A process was killed while it held the claim for a message about the item
\* of change o[2]: nobody gives such a claim back.
LeftBehind(o) ==
  \E s, k \in rows :
    /\ s.id = o[2] /\ k.item = s.item /\ <<o[1], ScheduleKey(k)>> \in ledger
    /\ \A a \in acked : a.user = o[1] => a.key # ScheduleKey(k)
    /\ \A r \in Runs : run[r].user = o[1] => run[r].job.key # ScheduleKey(k)

(* When the cursor passes a change, every user who has had the item as a   *)
(* favorite since before the change was pushed it, or had no device when   *)
(* the job looked, or there was nothing to say, or the push is on its way: *)
(* a failure anywhere must keep the cursor behind the change.  Only the    *)
(* claim of a killed process may stand in the way of the push for good.    *)
NothingSkipped ==
  cursor # None => \A o \in owed, s \in rows :
                     o[2] = s.id /\ ~OnItsWay(o) /\ ~LeftBehind(o) => s.obs > cursor

\* The cursor of the feed never moves back (as long as one run is alive).
CursorNeverMovesBack ==
  [][cursor # None => cursor' # None /\ cursor' >= cursor]_cursor

(* Every change that falls behind the last watermark the model reaches is  *)
(* in the end settled with every user it is owed to, whatever failed in    *)
(* between.                                                                *)
LastWatermark == ToDate(MaxClock - Lag)
Unsettled == {o \in owed : \E s \in rows : s.id = o[2] /\ s.obs <= LastWatermark}
EveryChangeSettles == []<>(Unsettled = {})

(* Whose reminder is due today, by the newest date of an item they         *)
(* favorite, and has not reached any of their devices.  Once the clock     *)
(* rests on a day nobody is left in the end, even when a failing change    *)
(* holds the cursor back.                                                  *)
MissingReminders ==
  {f \in favorites :
     /\ \E d \in devices : d.user = f[1]
     /\ \E s \in rows :
          /\ s.item = f[2] /\ \A q \in rows : q.item = f[2] => q.obs <= s.obs
          /\ s.val.bid # NoValue /\ KstDaysUntil(s.val.bid, clock) \in {1, 3}
          /\ \A a \in acked : a.user = f[1] => a.key # RemindKey(s, clock)}
EveryReminderArrives == []<>(MissingReminders = {})

(* "A key against sending the same change twice": no user is pushed two    *)
(* messages that report the same observation.                              *)
NoRepeatedChange ==
  \A a, b \in acked : a.user = b.user /\ a.key # b.key => a.ids \cap b.ids = {}

\* Nothing is pushed in the quiet hours.
NoPushInQuietHours == [][acked' # acked => ~IsQuietHour(clock)]_vars

\* notification_delivery is used as the ledger it is meant to be.
Ledger == INSTANCE DeliveryLedger WITH
  Senders <- Runs, Accounts <- Users, known <- accounts, claimed <- ledger,
  delivered <- {<<a.user, a.key>> : a \in {b \in acked : b.user \in accounts}},
  attempt <- [r \in Runs |-> IF run[r].user = None THEN {} ELSE {Pair(r)}]
LedgerRefined == Ledger!Spec

=============================================================================
