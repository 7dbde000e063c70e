--------------------------- MODULE AllowlistProofs --------------------------
(***************************************************************************)
(* Proofs about Allowlist: its invariant, for any number of domains,       *)
(* threads, restarts and moments.                                          *)
(***************************************************************************)
EXTENDS Allowlist, TLAPS

(* What a change does to a list: the domains it names get its entry, and    *)
(* the pruning removes nothing that is not expired.                         *)
LEMMA ChangedFacts ==
    ASSUME NEW list \in [Domains -> Entries], NEW change \in Changes, now \in Nat
    PROVE  /\ Changed(list, change) \in [Domains -> Entries]
           /\ \A d \in Domains :
                 \/ change.op # "prune" /\ change.domain = d
                 \/ Changed(list, change)[d] = list[d]
                 \/ /\ change.op = "prune"
                    /\ Changed(list, change)[d] = Absent
                    /\ ExpiredAt(list[d], now)
<1>1. Absent \in Entries /\ Permanent \in Entries
  BY DEF Absent, Permanent, Entries
<1>2. CASE change \in {[op |-> "add", domain |-> d, grant |-> g] : d \in Domains, g \in Grants}
  <2>1. PICK d \in Domains, g \in Grants : change = [op |-> "add", domain |-> d, grant |-> g]
    BY <1>2
  <2>2. GrantedEntry(g) \in Entries
    BY AllowlistAssumption, <1>1 DEF GrantedEntry, Grants, Until, Entries
  <2>3. Changed(list, change) = [list EXCEPT ![d] = GrantedEntry(g)]
    BY <2>1 DEF Changed
  <2>4. QED  BY <2>1, <2>2, <2>3
<1>3. CASE change \in {[op |-> "remove", domain |-> d] : d \in Domains}
  <2>1. PICK d \in Domains : change = [op |-> "remove", domain |-> d]
    BY <1>3
  <2>2. Changed(list, change) = [list EXCEPT ![d] = Absent]
    BY <2>1 DEF Changed
  <2>3. QED  BY <1>1, <2>1, <2>2
<1>4. CASE change = [op |-> "prune"]
  <2>1. Changed(list, change)
           = [d \in Domains |-> IF ExpiredAt(list[d], now) THEN Absent ELSE list[d]]
    BY <1>4 DEF Changed
  <2>2. QED  BY <1>1, <1>4, <2>1
<1>5. QED  BY <1>2, <1>3, <1>4 DEF Changes

(* A first start satisfies the invariant.                                   *)
LEMMA AllowlistStarts == AllowlistInit => AllowlistInvariant
<1> SUFFICES ASSUME AllowlistInit PROVE AllowlistInvariant
  OBVIOUS
<1> USE AllowlistAssumption
<1>1. NoCopy \in [Domains -> Entries] /\ IdleJob.change \in Changes
  BY DEF NoCopy, Absent, Entries, IdleJob, Changes
<1>2. /\ allowlist \in [Domains -> Entries]
      /\ \A d \in Domains : allowlist[d] = IF d \in Seeds THEN Permanent ELSE Absent
  BY DEF AllowlistInit, Seeded, NoCopy, Absent, Permanent, Entries
<1>3. \A t \in Workers : job[t] = IdleJob
  BY DEF AllowlistInit
<1>4. IdleJob \in [at : JobPcs, change : Changes, copy : [Domains -> Entries]]
  BY <1>1 DEF IdleJob, JobPcs
<1>5. \A t \in Workers : job[t].at = "idle" /\ t # lock
  BY <1>3 DEF IdleJob, AllowlistInit, Workers
<1>6. AllowlistTypeOK
  BY <1>2, <1>4, <1>5 DEF AllowlistTypeOK, AllowlistInit, Locked
<1>7. ActiveIn(allowlist) = Seeds /\ Listed = Seeds
  BY <1>2 DEF ActiveIn, Listed, ActiveAt, Permanent, Absent
<1>8. QED
  BY <1>5, <1>6, <1>7 DEF AllowlistInvariant, DownIsIdle, CopyIsCurrent, RendersWhatItSaved,
     FileIsRight, SquidIsRight, LastWordHolds, At, AllowlistInit

(* A step that changes neither the lists nor the clock, nor a thread inside *)
(* the critical section, preserves the invariant.                           *)
LEMMA Undisturbed ==
    ASSUME AllowlistInvariant, AllowlistTypeOK', DownIsIdle',
           UNCHANGED <<allowlist, squidFile, squidLive, now, up, word, unheard>>,
           \A s \in Workers : job'[s].at \in Locked \/ job[s].at \in Locked => job'[s] = job[s]
    PROVE  AllowlistInvariant'
<1>1. \A s \in Workers : \A where \in Locked : At(s, where)' <=> At(s, where)
  BY DEF At
<1>2. CopyIsCurrent'
  BY DEF AllowlistInvariant, CopyIsCurrent, At, Locked, ExpiredAt
<1>3. RendersWhatItSaved'
  BY DEF AllowlistInvariant, RendersWhatItSaved, At, Locked
<1>4. FileIsRight'
  BY <1>1 DEF AllowlistInvariant, FileIsRight, Locked, ActiveIn, Listed
<1>5. SquidIsRight'
  BY <1>1 DEF AllowlistInvariant, SquidIsRight, Locked
<1>6. LastWordHolds'
  BY DEF AllowlistInvariant, LastWordHolds
<1>7. QED  BY <1>2, <1>3, <1>4, <1>5, <1>6 DEF AllowlistInvariant

(* Every step preserves it. A step that leaves the lists alone can only     *)
(* disturb where the threads are; the clock only shrinks what is active and *)
(* grows what is expired.                                                   *)
LEMMA AllowlistInductive ==
    AllowlistInvariant /\ [AllowlistNext]_allowlistVars => AllowlistInvariant'
<1> SUFFICES ASSUME AllowlistInvariant, [AllowlistNext]_allowlistVars
             PROVE  AllowlistInvariant'
  OBVIOUS
<1> USE AllowlistAssumption
<1> DEFINE Jobs == [at : JobPcs, change : Changes, copy : [Domains -> Entries]]
<1>1. AllowlistTypeOK
  BY DEF AllowlistInvariant
<1>2. NoCopy \in [Domains -> Entries] /\ IdleJob \in Jobs /\ IdleJob.at = "idle"
  BY DEF NoCopy, Absent, Entries, IdleJob, Changes, JobPcs
<1>3. ASSUME NEW t \in Workers, NEW change \in Changes, Begin(t, change)
      PROVE  AllowlistInvariant'
  <2>1. job'[t].at = "load" /\ (\A s \in Workers \ {t} : job'[s] = job[s])
    BY <1>1, <1>3 DEF Begin, AllowlistTypeOK
  <2>2. job' \in [Workers -> Jobs]
    BY <1>1, <1>3 DEF Begin, AllowlistTypeOK, JobPcs
  <2>3. job[t].at = "idle"
    BY <1>3 DEF Begin, At
  <2>4. AllowlistTypeOK'
    BY <1>1, <1>3, <2>1, <2>2, <2>3 DEF Begin, AllowlistTypeOK, Locked
  <2>5. \A s \in Workers : job'[s].at \in Locked \/ job[s].at \in Locked => job'[s] = job[s]
    BY <2>1, <2>3 DEF Locked
  <2>6. QED
    BY <1>3, <2>4, <2>5, Undisturbed DEF Begin, DownIsIdle
<1>4. ASSUME NEW t \in Workers, Load(t)
      PROVE  AllowlistInvariant'
  <2>1. CASE job' = [job EXCEPT ![t] = IdleJob] /\ lock' = lock
    <3>1. job' \in [Workers -> Jobs] /\ job'[t].at = "idle"
      BY <1>1, <1>2, <2>1 DEF AllowlistTypeOK
    <3>2. \A s \in Workers \ {t} : job'[s] = job[s]
      BY <1>1, <2>1 DEF AllowlistTypeOK
    <3>3. job[t].at = "load"
      BY <1>4 DEF Load, At
    <3>4. AllowlistTypeOK'
      BY <1>1, <1>4, <2>1, <3>1, <3>2, <3>3 DEF Load, AllowlistTypeOK, Locked
    <3>5. \A s \in Workers : job'[s].at \in Locked \/ job[s].at \in Locked => job'[s] = job[s]
      BY <3>1, <3>2, <3>3 DEF Locked
    <3>6. QED
      BY <1>4, <3>1, <3>2, <3>4, <3>5, Undisturbed DEF Load, AllowlistInvariant, DownIsIdle, At
  <2>2. CASE /\ job' = [job EXCEPT ![t].at = "save",
                                   ![t].copy = Changed(allowlist, job[t].change)]
             /\ lock' = t
    <3>1. Changed(allowlist, job[t].change) \in [Domains -> Entries]
      BY <1>1, ChangedFacts DEF AllowlistTypeOK
    <3>2. /\ job' \in [Workers -> Jobs]
          /\ job'[t].at = "save"
          /\ job'[t].change = job[t].change
          /\ job'[t].copy = Changed(allowlist, job[t].change)
      BY <1>1, <2>2, <3>1 DEF AllowlistTypeOK, JobPcs
    <3>3. \A s \in Workers \ {t} : job'[s] = job[s]
      BY <1>1, <2>2 DEF AllowlistTypeOK
    <3>4. job[t].at = "load" /\ lock = NoThread
      BY <1>4 DEF Load, At, LockIsFree
    <3>5. \A s \in Workers : job[s].at \notin Locked
      BY <1>1, <3>4 DEF AllowlistTypeOK, Workers
    <3>6. AllowlistTypeOK'
      BY <1>1, <1>4, <2>2, <3>2, <3>3, <3>5 DEF Load, AllowlistTypeOK, Locked
    <3>7. CopyIsCurrent'
      <4>1. \A s \in Workers : job'[s].at = "save" => s = t
        BY <3>3, <3>5 DEF Locked
      <4>2. UNCHANGED <<allowlist, now>>
        BY <1>4 DEF Load
      <4>3. \A d \in Domains :
               \/ job'[t].change.op # "prune" /\ job'[t].change.domain = d
               \/ job'[t].copy[d] = allowlist[d]
               \/ /\ job'[t].change.op = "prune"
                  /\ job'[t].copy[d] = Absent
                  /\ ExpiredAt(allowlist[d], now)
        BY <1>1, <3>2, ChangedFacts DEF AllowlistTypeOK
      <4>4. QED
        BY <4>1, <4>2, <4>3 DEF CopyIsCurrent, At, ExpiredAt
    <3>8. \A s \in Workers : job'[s].at \notin {"render", "reconfigure"}
      BY <3>2, <3>3, <3>5 DEF Locked
    <3>9. FileIsRight' /\ SquidIsRight'
      BY <1>4, <3>5 DEF Load, AllowlistInvariant, FileIsRight, SquidIsRight, At, Locked,
         ActiveIn, Listed
    <3>10. QED
      BY <1>4, <3>4, <3>6, <3>7, <3>8, <3>9 DEF Load, AllowlistInvariant, DownIsIdle,
         RendersWhatItSaved, LastWordHolds, At
  <2>3. QED  BY <1>4, <2>1, <2>2 DEF Load
<1>5. ASSUME NEW t \in Workers, Save(t)
      PROVE  AllowlistInvariant'
  <2>1. /\ job' \in [Workers -> Jobs]
        /\ job'[t].at = "render"
        /\ job'[t].copy = job[t].copy
    BY <1>1, <1>5 DEF Save, AllowlistTypeOK, JobPcs
  <2>2. \A s \in Workers \ {t} : job'[s] = job[s]
    BY <1>1, <1>5 DEF Save, AllowlistTypeOK
  <2>3. job[t].at = "save" /\ lock = t
    BY <1>1, <1>5 DEF Save, At, AllowlistTypeOK, Locked
  <2>4. \A s \in Workers \ {t} : job'[s].at \notin Locked
    BY <1>1, <2>2, <2>3 DEF AllowlistTypeOK
  <2>5. job[t].copy \in [Domains -> Entries] /\ job[t].change \in Changes
    BY <1>1 DEF AllowlistTypeOK
  <2>6. word' \in [Domains -> Entries] /\ LastWordHolds'
    <3>1. CASE job[t].change.op = "prune"
      <4>1. word' = word /\ allowlist' = job[t].copy /\ now' = now
        BY <1>5, <3>1 DEF Save, Said
      <4>2. \A d \in Domains : \/ job[t].copy[d] = allowlist[d]
                               \/ /\ job[t].copy[d] = Absent
                                  /\ ExpiredAt(allowlist[d], now)
        BY <2>3, <3>1 DEF AllowlistInvariant, CopyIsCurrent, At
      <4>3. ~ExpiredAt(Absent, now)
        BY DEF ExpiredAt, Absent
      <4>4. \A d \in Domains : \/ allowlist[d] = word[d]
                               \/ allowlist[d] = Absent /\ ExpiredAt(word[d], now)
        BY DEF AllowlistInvariant, LastWordHolds
      <4>5. \A d \in Domains : \/ job[t].copy[d] = word[d]
                               \/ job[t].copy[d] = Absent /\ ExpiredAt(word[d], now)
        BY <4>2, <4>3, <4>4
      <4>6. LastWordHolds'
        BY <4>1, <4>5 DEF LastWordHolds, ExpiredAt
      <4>7. QED  BY <1>1, <4>1, <4>6 DEF AllowlistTypeOK
    <3>2. CASE job[t].change.op # "prune"
      <4>1. PICK d \in Domains : job[t].change.domain = d
        BY <2>5, <3>2 DEF Changes
      <4>2. word' = [word EXCEPT ![d] = job[t].copy[d]] /\ allowlist' = job[t].copy /\ now' = now
        BY <1>5, <3>2, <4>1 DEF Save, Said
      <4>3. \A e \in Domains \ {d} : job[t].copy[e] = allowlist[e]
        BY <2>3, <3>2, <4>1 DEF AllowlistInvariant, CopyIsCurrent, At
      <4>4. word' \in [Domains -> Entries]
        BY <1>1, <2>5, <4>2 DEF AllowlistTypeOK
      <4>5. \A e \in Domains : word'[e] = IF e = d THEN job[t].copy[d] ELSE word[e]
        BY <1>1, <4>2 DEF AllowlistTypeOK
      <4>6. QED
        BY <4>2, <4>3, <4>4, <4>5 DEF AllowlistInvariant, LastWordHolds, ExpiredAt
    <3>3. QED  BY <3>1, <3>2
  <2>7. AllowlistTypeOK'
    BY <1>1, <1>5, <2>1, <2>2, <2>3, <2>5, <2>6 DEF Save, AllowlistTypeOK, Locked
  <2>8. SquidIsRight'
    BY <1>5, <2>1, <2>2, <2>3 DEF Save, AllowlistInvariant, SquidIsRight, At
  <2>9. QED
    BY <1>5, <2>1, <2>3, <2>4, <2>6, <2>7, <2>8 DEF Save, AllowlistInvariant, DownIsIdle,
       CopyIsCurrent, RendersWhatItSaved, FileIsRight, At, Locked
<1>6. ASSUME NEW t \in Workers, Render(t)
      PROVE  AllowlistInvariant'
  <2>1. job' \in [Workers -> Jobs] /\ job'[t].at = "reconfigure"
    BY <1>1, <1>2, <1>6 DEF Render, AllowlistTypeOK, JobPcs
  <2>2. \A s \in Workers \ {t} : job'[s] = job[s]
    BY <1>1, <1>6 DEF Render, AllowlistTypeOK
  <2>3. job[t].at = "render" /\ lock = t
    BY <1>1, <1>6 DEF Render, At, AllowlistTypeOK, Locked
  <2>4. \A s \in Workers \ {t} : job'[s].at \notin Locked
    BY <1>1, <2>2, <2>3 DEF AllowlistTypeOK
  <2>5. squidFile' = ActiveIn(allowlist) /\ ActiveIn(allowlist) \subseteq Listed
    BY <1>6, <2>3 DEF Render, Rendered, AllowlistInvariant, RendersWhatItSaved, At, ActiveIn,
       Listed, ActiveAt, Absent
  <2>6. AllowlistTypeOK'
    BY <1>1, <1>6, <2>1, <2>2, <2>3, <2>5 DEF Render, AllowlistTypeOK, Locked, Listed
  <2>7. FileIsRight'
    BY <1>6, <2>5 DEF Render, FileIsRight, ActiveIn, Listed
  <2>8. QED
    BY <1>6, <2>1, <2>3, <2>4, <2>6, <2>7 DEF Render, AllowlistInvariant, DownIsIdle,
       CopyIsCurrent, RendersWhatItSaved, SquidIsRight, LastWordHolds, At, Locked
<1>7. ASSUME NEW t \in Workers, Reconfigure(t)
      PROVE  AllowlistInvariant'
  <2>1. job' \in [Workers -> Jobs] /\ job'[t].at = "finish"
    BY <1>1, <1>2, <1>7 DEF Reconfigure, AllowlistTypeOK, JobPcs, IdleJob
  <2>2. \A s \in Workers \ {t} : job'[s] = job[s]
    BY <1>1, <1>7 DEF Reconfigure, AllowlistTypeOK
  <2>3. job[t].at = "reconfigure" /\ lock = t
    BY <1>1, <1>7 DEF Reconfigure, At, AllowlistTypeOK, Locked
  <2>4. \A s \in Workers : job'[s].at \notin Locked
    BY <1>1, <2>1, <2>2, <2>3 DEF AllowlistTypeOK, Locked
  <2>5. \A s \in Workers : ~At(s, "render")
    BY <1>1, <2>3 DEF AllowlistTypeOK, At, Locked
  <2>6. AllowlistTypeOK'
    BY <1>1, <1>7, <2>1, <2>4 DEF Reconfigure, AllowlistTypeOK, Workers
  <2>7. FileIsRight' /\ SquidIsRight'
    BY <1>7, <2>5 DEF Reconfigure, AllowlistInvariant, FileIsRight, SquidIsRight, ActiveIn,
       Listed
  <2>8. QED
    BY <1>7, <2>3, <2>4, <2>6, <2>7 DEF Reconfigure, AllowlistInvariant, DownIsIdle,
       CopyIsCurrent, RendersWhatItSaved, LastWordHolds, At, Locked
<1>8. ASSUME NEW t \in Workers, Answered(t)
      PROVE  AllowlistInvariant'
  <2>1. job' \in [Workers -> Jobs] /\ job'[t].at = "idle"
    BY <1>1, <1>2, <1>8 DEF Answered, AllowlistTypeOK
  <2>2. \A s \in Workers \ {t} : job'[s] = job[s]
    BY <1>1, <1>8 DEF Answered, AllowlistTypeOK
  <2>3. job[t].at = "finish"
    BY <1>8 DEF Answered, At
  <2>4. AllowlistTypeOK'
    BY <1>1, <1>8, <2>1, <2>2, <2>3 DEF Answered, AllowlistTypeOK, Locked
  <2>5. \A s \in Workers : job'[s].at \in Locked \/ job[s].at \in Locked => job'[s] = job[s]
    BY <2>1, <2>2, <2>3 DEF Locked
  <2>6. QED
    BY <1>8, <2>1, <2>2, <2>4, <2>5, Undisturbed DEF Answered, AllowlistInvariant, DownIsIdle, At
<1>9. ASSUME Tick
      PROVE  AllowlistInvariant'
  <2>1. now \in Nat /\ now' = now + 1
    BY <1>1, <1>9 DEF Tick, AllowlistTypeOK
  <2>2. \A e \in Entries : /\ ExpiredAt(e, now) => ExpiredAt(e, now')
                           /\ ActiveAt(e, now') => ActiveAt(e, now)
    BY <2>1 DEF ExpiredAt, ActiveAt, Entries
  <2>3. \A d \in Domains : allowlist[d] \in Entries /\ word[d] \in Entries
    BY <1>1 DEF AllowlistTypeOK
  <2>4. UNCHANGED <<allowlist, squidFile, squidLive, up, lock, job, word, unheard, restarts>>
    BY <1>9 DEF Tick
  <2>5. AllowlistTypeOK'
    BY <1>1, <2>1, <2>4 DEF AllowlistTypeOK
  <2>6. DownIsIdle' /\ CopyIsCurrent' /\ RendersWhatItSaved' /\ SquidIsRight'
    BY <2>2, <2>3, <2>4 DEF AllowlistInvariant, DownIsIdle, CopyIsCurrent, RendersWhatItSaved,
       SquidIsRight, At
  <2>7. FileIsRight'
    <3>1. ActiveIn(allowlist)' \subseteq ActiveIn(allowlist) /\ Listed' = Listed
      BY <2>2, <2>3, <2>4 DEF ActiveIn, Listed
    <3>2. QED  BY <2>4, <3>1 DEF AllowlistInvariant, FileIsRight, At
  <2>8. LastWordHolds'
    BY <2>2, <2>3, <2>4 DEF AllowlistInvariant, LastWordHolds
  <2>9. QED  BY <2>5, <2>6, <2>7, <2>8 DEF AllowlistInvariant
<1>10. ASSUME Die
       PROVE  AllowlistInvariant'
  <2>1. job' \in [Workers -> Jobs] /\ (\A s \in Workers : job'[s].at = "idle")
    BY <1>2, <1>10 DEF Die
  <2>2. AllowlistTypeOK'
    <3>1. squidFile' \subseteq Domains /\ restarts' \in Nat
      BY <1>1, <1>10 DEF Die, AllowlistTypeOK
    <3>2. \A s \in Workers : ~(job'[s].at \in Locked) /\ lock' # s
      BY <1>10, <2>1 DEF Die, Locked, Workers
    <3>3. QED  BY <1>1, <1>10, <2>1, <3>1, <3>2 DEF Die, AllowlistTypeOK
  <2>3. QED
    BY <1>10, <2>1, <2>2 DEF Die, AllowlistInvariant, DownIsIdle, CopyIsCurrent, RendersWhatItSaved,
       FileIsRight, SquidIsRight, LastWordHolds, At
<1>11. ASSUME Start
       PROVE  AllowlistInvariant'
  <2>1. /\ Seeded(allowlist) \in [Domains -> Entries]
        /\ Seeded(word) \in [Domains -> Entries]
        /\ \A d \in Domains : /\ Seeded(allowlist)[d] = IF d \in Seeds THEN Permanent
                                                         ELSE allowlist[d]
                              /\ Seeded(word)[d] = IF d \in Seeds THEN Permanent ELSE word[d]
    BY <1>1 DEF Seeded, AllowlistTypeOK, Permanent, Entries
  <2>2. /\ allowlist' = Seeded(allowlist)
        /\ word' = Seeded(word)
        /\ squidFile' = ActiveIn(allowlist')
        /\ UNCHANGED <<now, lock, job, restarts>>
        /\ up' = TRUE
    BY <1>11 DEF Start
  <2>3. squidLive' = squidFile' \/ unheard' = TRUE
    BY <1>11 DEF Start
  <2>4. squidLive' \subseteq Domains /\ unheard' \in BOOLEAN
    BY <1>1, <1>11 DEF Start, AllowlistTypeOK, ActiveIn
  <2>5. AllowlistTypeOK'
    BY <1>1, <2>1, <2>2, <2>4 DEF AllowlistTypeOK, ActiveIn
  <2>6. FileIsRight' /\ SquidIsRight'
    BY <2>2, <2>3 DEF FileIsRight, SquidIsRight, ActiveIn, Listed, ActiveAt, Absent
  <2>7. LastWordHolds'
    BY <2>1, <2>2 DEF AllowlistInvariant, LastWordHolds, ExpiredAt
  <2>8. \A s \in Workers : job[s].at \notin Locked
    BY <1>11 DEF Start, AllowlistInvariant, DownIsIdle, At, Locked
  <2>9. QED
    BY <2>2, <2>5, <2>6, <2>7, <2>8 DEF AllowlistInvariant, DownIsIdle, CopyIsCurrent, RendersWhatItSaved,
       At, Locked
<1>12. CASE UNCHANGED allowlistVars
  BY <1>12 DEF allowlistVars, AllowlistInvariant, AllowlistTypeOK, DownIsIdle, CopyIsCurrent,
     RendersWhatItSaved, FileIsRight, SquidIsRight, LastWordHolds, At, ActiveIn, Listed
<1>13. CASE \E t \in Threads, d \in Domains : (\E g \in Grants : Allow(t, d, g)) \/ Block(t, d)
  BY <1>3, <1>13 DEF Allow, Block, Changes, Workers
<1>14. CASE Prune
  BY <1>3, <1>14 DEF Prune, Changes, Workers
<1>15. QED
  BY <1>4, <1>5, <1>6, <1>7, <1>8, <1>9, <1>10, <1>11, <1>12, <1>13, <1>14
     DEF AllowlistNext, Work

(* The invariant holds in every state the daemon can reach.                 *)
THEOREM AllowlistInvariantHolds == AllowlistSpec => []AllowlistInvariant
<1>1. AllowlistInit => AllowlistInvariant
  BY AllowlistStarts
<1>2. AllowlistInvariant /\ [AllowlistNext]_allowlistVars => AllowlistInvariant'
  BY AllowlistInductive
<1>3. QED  BY <1>1, <1>2, PTL DEF AllowlistSpec

(* Types, and mutual exclusion inside allowlist_lock.                       *)
THEOREM AllowlistTypeCorrect == AllowlistSpec => []AllowlistTypeOK
<1>1. AllowlistInvariant => AllowlistTypeOK
  BY DEF AllowlistInvariant
<1>2. QED  BY <1>1, AllowlistInvariantHolds, PTL

(* Squid's file holds every active domain and only listed ones whenever no  *)
(* change is under way, whatever crashed before.                            *)
THEOREM FileFollowsStateHolds == AllowlistSpec => []FileFollowsState
<1>1. AllowlistInvariant => FileFollowsState
  BY AllowlistAssumption DEF AllowlistInvariant, AllowlistTypeOK, FileIsRight, FileFollowsState, Locked, At,
     Workers
<1>2. QED  BY <1>1, AllowlistInvariantHolds, PTL

(* The running Squid enforces that file unless its reconfigure failed.      *)
THEOREM SquidEnforcesFileHolds == AllowlistSpec => []SquidEnforcesFile
<1>1. AllowlistInvariant => SquidEnforcesFile
  BY AllowlistAssumption DEF AllowlistInvariant, AllowlistTypeOK, SquidIsRight,
     SquidEnforcesFile, Locked, At, Workers
<1>2. QED  BY <1>1, AllowlistInvariantHolds, PTL

(* No change of the allowlist is lost to a concurrent one.                  *)
THEOREM LastWordHoldsAlways == AllowlistSpec => []LastWordHolds
<1>1. AllowlistInvariant => LastWordHolds
  BY DEF AllowlistInvariant
<1>2. QED  BY <1>1, AllowlistInvariantHolds, PTL
=============================================================================
