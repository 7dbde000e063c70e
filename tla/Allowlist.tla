----------------------------- MODULE Allowlist -----------------------------
(***************************************************************************)
(* The domain allowlist of server/proxy/approval_daemon.py: the JSON state *)
(* file, the file Squid reads, what the running Squid has loaded, and the  *)
(* threads that change them (the handlers of the admin listener and        *)
(* prune_loop), which all hold allowlist_lock from loading the state to    *)
(* the end of squid's reconfigure.                                         *)
(*                                                                         *)
(* A change is cut where a crash or the clock can come between: loading,   *)
(* saving (atomic, os.replace), rewriting Squid's file with what is active *)
(* at that moment, and `squid -k reconfigure', whose failure is ignored.   *)
(***************************************************************************)
EXTENDS Naturals

CONSTANTS Domains,     \* domain names
          Seeds,       \* PERMANENT_SEED_DOMAINS
          Threads,     \* handler threads of the admin listener
          Pruner,      \* the thread of prune_loop
          NoThread,    \* nobody
          Durations,   \* the durations qualifier_to_grant returns, the default one included
          MayFail,     \* whether squid -k reconfigure can fail
          MaxTime,     \* bound: the last moment of the clock
          MaxRestarts  \* bound: how often the daemon dies

ASSUME AllowlistAssumption == /\ Seeds \subseteq Domains
                              /\ Pruner \notin Threads
                              /\ NoThread \notin Threads \cup {Pruner}
                              /\ Durations \subseteq Nat
                              /\ MayFail \in BOOLEAN
                              /\ MaxTime \in Nat
                              /\ MaxRestarts \in Nat

VARIABLES allowlist,   \* the state file: what is known of each domain
          squidFile,   \* the domains in SQUID_ALLOWLIST_PATH
          squidLive,   \* the domains the running Squid lets through
          now,         \* time.time()
          up,          \* whether the daemon runs
          lock,        \* who holds allowlist_lock
          job,         \* the locals of each thread
          word,        \* history: the last thing said about each domain
          unheard,     \* history: the last reconfigure failed
          restarts     \* history: how often the daemon died

allowlistVars == <<allowlist, squidFile, squidLive, now, up, lock, job, word, unheard,
                   restarts>>

Workers == Threads \cup {Pruner}

\* The entry of a domain.
Absent    == [kind |-> "absent", expires |-> 0]
Permanent == [kind |-> "permanent", expires |-> 0]
Until(t)  == [kind |-> "timed", expires |-> t]
Entries   == [kind : {"absent", "permanent", "timed"}, expires : Nat]

\* What a thread was asked to do: add_domain, remove_domain or the pruning.
\* qualifier_to_grant turns every qualifier into "forever" or a duration.
Grants  == {[forever |-> TRUE, seconds |-> 0]}
             \cup {[forever |-> FALSE, seconds |-> n] : n \in Durations}
Changes == [op : {"add"}, domain : Domains, grant : Grants]
             \cup [op : {"remove"}, domain : Domains]
             \cup [op : {"prune"}]

JobPcs == {"idle", "load", "save", "render", "reconfigure", "finish"}

NoCopy == [d \in Domains |-> Absent]
IdleJob == [at |-> "idle", change |-> [op |-> "prune"], copy |-> NoCopy]

Locked == {"save", "render", "reconfigure"}

(* The variables have their types, and a thread is inside the critical      *)
(* section exactly when it holds allowlist_lock.                            *)
AllowlistTypeOK ==
    /\ allowlist \in [Domains -> Entries]
    /\ squidFile \subseteq Domains
    /\ squidLive \subseteq Domains
    /\ now \in Nat
    /\ up \in BOOLEAN
    /\ lock \in Workers \cup {NoThread}
    /\ job \in [Workers -> [at : JobPcs, change : Changes, copy : [Domains -> Entries]]]
    /\ word \in [Domains -> Entries]
    /\ unheard \in BOOLEAN
    /\ restarts \in Nat
    /\ \A t \in Workers : job[t].at \in Locked <=> lock = t

\* Whether an entry lets its domain through at time t.
ActiveAt(entry, t) == \/ entry.kind = "permanent"
                      \/ entry.kind = "timed" /\ entry.expires > t

ExpiredAt(entry, t) == entry.kind = "timed" /\ entry.expires <= t

Listed == {d \in Domains : allowlist[d] # Absent}
ActiveIn(list) == {d \in Domains : ActiveAt(list[d], now)}

\* ensure_seed
Seeded(list) == [d \in Domains |-> IF d \in Seeds THEN Permanent ELSE list[d]]

\* A first start: no state file yet.
AllowlistInit ==
    /\ allowlist = Seeded(NoCopy)
    /\ squidFile = Seeds
    /\ squidLive = Seeds
    /\ now = 0
    /\ up = TRUE
    /\ lock = NoThread
    /\ job = [t \in Workers |-> IdleJob]
    /\ word = allowlist
    /\ unheard = FALSE
    /\ restarts = 0

-----------------------------------------------------------------------------

At(t, where) == job[t].at = where

\* A thread is given something to do.
Begin(t, change) ==
    /\ up
    /\ At(t, "idle")
    /\ job' = [job EXCEPT ![t].at = "load", ![t].change = change]
    /\ UNCHANGED <<allowlist, squidFile, squidLive, now, up, lock, word, unheard, restarts>>

\* Faulty: the lock is not waited for.
Anyway == TRUE

LockIsFree == lock = NoThread

\* The entry add_domain writes.
GrantedEntry(grant) == IF grant.forever THEN Permanent ELSE Until(now + grant.seconds)

\* The list with a change made to it.
Changed(list, change) ==
    CASE change.op = "add" ->
           [list EXCEPT ![change.domain] = GrantedEntry(change.grant)]
      [] change.op = "remove" -> [list EXCEPT ![change.domain] = Absent]
      [] change.op = "prune" ->
           [d \in Domains |-> IF ExpiredAt(list[d], now) THEN Absent ELSE list[d]]

\* load_allowlist, under allowlist_lock, and the change in the thread's copy;
\* prune_loop stops here when nothing is expired.
Load(t) ==
    /\ At(t, "load")
    /\ LockIsFree
    /\ IF /\ job[t].change.op = "prune"
          /\ \A d \in Domains : ~ExpiredAt(allowlist[d], now)
       THEN /\ job' = [job EXCEPT ![t] = IdleJob]
            /\ UNCHANGED lock
       ELSE /\ job' = [job EXCEPT ![t].at = "save",
                                  ![t].copy = Changed(allowlist, job[t].change)]
            /\ lock' = t
    /\ UNCHANGED <<allowlist, squidFile, squidLive, now, up, word, unheard, restarts>>

\* What has been said of each domain once thread t has made its change.
Said(t) == IF job[t].change.op = "prune" THEN word
           ELSE [word EXCEPT ![job[t].change.domain] = job[t].copy[job[t].change.domain]]

\* Faulty: Squid's file is rewritten and the state is not saved.
SaveForgotten(t) ==
    /\ At(t, "save")
    /\ squidFile' = ActiveIn(job[t].copy)
    /\ job' = [job EXCEPT ![t].at = "render"]
    /\ UNCHANGED <<allowlist, squidLive, now, up, lock, word, unheard, restarts>>

\* save_allowlist
Save(t) ==
    /\ At(t, "save")
    /\ allowlist' = job[t].copy
    /\ job' = [job EXCEPT ![t].at = "render"]
    /\ word' = Said(t)
    /\ UNCHANGED <<squidFile, squidLive, now, up, lock, unheard, restarts>>

\* Faulty: new domains are appended to Squid's file, which is never shrunk.
Appended(t) == squidFile \cup ActiveIn(job[t].copy)

Rendered(t) == ActiveIn(job[t].copy)

\* regenerate_squid: the file is rewritten.
Render(t) ==
    /\ At(t, "render")
    /\ squidFile' = Rendered(t)
    /\ job' = [job EXCEPT ![t].at = "reconfigure", ![t].copy = NoCopy]
    /\ UNCHANGED <<allowlist, squidLive, now, up, lock, word, unheard, restarts>>

\* Faulty: Squid is told of what an admin did, and not of what the pruning did.
ReconfigureForAdmins(t) ==
    /\ At(t, "reconfigure")
    /\ squidLive' = (IF job[t].change.op = "prune" THEN squidLive ELSE squidFile)
    /\ lock' = NoThread
    /\ job' = [job EXCEPT ![t] = [IdleJob EXCEPT !.at = "finish"]]
    /\ UNCHANGED <<allowlist, squidFile, now, up, word, unheard, restarts>>

\* regenerate_squid: squid -k reconfigure, check=False; then the lock is released.
Reconfigure(t) ==
    /\ At(t, "reconfigure")
    /\ \/ squidLive' = squidFile /\ unheard' = FALSE
       \/ MayFail /\ squidLive' = squidLive /\ unheard' = TRUE
    /\ lock' = NoThread
    /\ job' = [job EXCEPT ![t] = [IdleJob EXCEPT !.at = "finish"]]
    /\ UNCHANGED <<allowlist, squidFile, now, up, word, restarts>>

\* The handler answers, or prune_loop goes back to sleep.
Answered(t) ==
    /\ At(t, "finish")
    /\ job' = [job EXCEPT ![t] = IdleJob]
    /\ UNCHANGED <<allowlist, squidFile, squidLive, now, up, lock, word, unheard, restarts>>

Work(t) == Load(t) \/ Save(t) \/ Render(t) \/ Reconfigure(t)

Tick ==
    /\ now < MaxTime
    /\ now' = now + 1
    /\ UNCHANGED <<allowlist, squidFile, squidLive, up, lock, job, word, unheard, restarts>>

\* The process dies, perhaps while Squid's file is cut short: unlike the state
\* file, that one is written in place.
Die ==
    /\ up
    /\ restarts < MaxRestarts
    /\ restarts' = restarts + 1
    /\ up' = FALSE
    /\ lock' = NoThread
    /\ job' = [t \in Workers |-> IdleJob]
    /\ \/ UNCHANGED squidFile
       \/ (\E t \in Workers : At(t, "render")) /\ squidFile' = {}
    /\ UNCHANGED <<allowlist, squidLive, now, word, unheard>>

\* The code at module level, before any listener exists: seed, save, regenerate.
\* A seed that was blocked is listed again, and that is the last word on it.
Start ==
    /\ ~up
    /\ up' = TRUE
    /\ allowlist' = Seeded(allowlist)
    /\ word' = Seeded(word)
    /\ squidFile' = ActiveIn(Seeded(allowlist))
    /\ \/ squidLive' = squidFile' /\ unheard' = FALSE
       \/ MayFail /\ squidLive' = squidLive /\ unheard' = TRUE
    /\ UNCHANGED <<now, lock, job, restarts>>

\* /allowlist/allow and /allowlist/block
Allow(t, d, g) == Begin(t, [op |-> "add", domain |-> d, grant |-> g])
Block(t, d)    == Begin(t, [op |-> "remove", domain |-> d])
Prune          == Begin(Pruner, [op |-> "prune"])

AllowlistNext ==
    \/ \E t \in Threads, d \in Domains :
          \/ \E g \in Grants : Allow(t, d, g)
          \/ Block(t, d)
    \/ Prune
    \/ \E t \in Workers : Work(t) \/ Answered(t)
    \/ Tick
    \/ Die
    \/ Start

AllowlistSpec == AllowlistInit /\ [][AllowlistNext]_allowlistVars

\* prune_loop wakes every minute, threads run, the lock goes to whoever waits
\* (a waiting prune_loop is not passed over for ever), time goes on, and
\* systemd restarts the daemon.
FairAllowlistSpec ==
    /\ AllowlistSpec
    /\ WF_allowlistVars(Prune)
    /\ \A t \in Workers : /\ SF_allowlistVars(Load(t))
                          /\ WF_allowlistVars(Save(t))
                          /\ WF_allowlistVars(Render(t))
                          /\ WF_allowlistVars(Reconfigure(t))
                          /\ WF_allowlistVars(Answered(t))
    /\ WF_allowlistVars(Tick)
    /\ WF_allowlistVars(Start)

-----------------------------------------------------------------------------

(* When no change is under way, Squid's file holds every domain that is     *)
(* active and none that is not listed: neither a crash nor a concurrent     *)
(* change can leave a domain in it that the state file does not have, or an *)
(* active one out.  (A restart lists every seed again in both, also one     *)
(* that the user had blocked.)                                              *)
FileFollowsState ==
    up /\ lock = NoThread => ActiveIn(allowlist) \subseteq squidFile /\ squidFile \subseteq Listed

(* The running Squid then enforces that file, unless its reconfigure failed *)
(* and nobody noticed.                                                      *)
SquidEnforcesFile ==
    up /\ lock = NoThread /\ ~unheard => squidLive = squidFile

(* No change is lost to another one: the state file says of each domain the *)
(* last thing that was said of it, or nothing once that has expired.  The   *)
(* seeding at a restart has its say too: a block of a seed ends there.      *)
LastWordHolds ==
    \A d \in Domains :
        \/ allowlist[d] = word[d]
        \/ allowlist[d] = Absent /\ ExpiredAt(word[d], now)

\* The parts of the invariant below.
\* A daemon that is down has no threads.
DownIsIdle == ~up => \A t \in Workers : At(t, "idle")

\* What a thread is about to save is the state file with its own change in it.
CopyIsCurrent ==
    \A t \in Workers, d \in Domains :
        At(t, "save") => \/ job[t].change.op # "prune" /\ job[t].change.domain = d
                         \/ job[t].copy[d] = allowlist[d]
                         \/ /\ job[t].change.op = "prune"
                            /\ job[t].copy[d] = Absent
                            /\ ExpiredAt(allowlist[d], now)

\* What a thread is about to render is what it has saved.
RendersWhatItSaved == \A t \in Workers : At(t, "render") => job[t].copy = allowlist

\* Squid's file is right but between save_allowlist and its being rewritten...
FileIsRight ==
    up /\ (\A t \in Workers : ~At(t, "render"))
        => ActiveIn(allowlist) \subseteq squidFile /\ squidFile \subseteq Listed

\* ...and Squid follows it but between that and its reconfigure.
SquidIsRight ==
    up /\ ~unheard /\ (\A t \in Workers : ~At(t, "reconfigure")) => squidLive = squidFile

(* What makes the three properties above invariant: where in the critical   *)
(* section the state file, a thread's copy, Squid's file and the running    *)
(* Squid may differ, and that they agree everywhere else.                   *)
AllowlistInvariant ==
    /\ AllowlistTypeOK
    /\ DownIsIdle
    /\ CopyIsCurrent
    /\ RendersWhatItSaved
    /\ FileIsRight
    /\ SquidIsRight
    /\ LastWordHolds

(* An expired grant does not outlive prune_loop: the domain is eventually   *)
(* no longer let through, unless it is allowed again.                       *)
ExpiredDomainsLeave ==
    \A d \in Domains :
        ExpiredAt(allowlist[d], now) ~> (d \notin squidLive \/ ActiveAt(allowlist[d], now))
=============================================================================
