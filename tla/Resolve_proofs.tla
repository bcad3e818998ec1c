---------------------------- MODULE Resolve_proofs ----------------------------
(***************************************************************************)
(* Resolution for any number of threads, processes, components and shared  *)
(* stores, while stores and environments change: a legacy store is probed  *)
(* once, an orphaned one is announced, the first tier that has a value     *)
(* decides, the plain gets answer from the store alone, and components     *)
(* that share a store are kept apart.                                      *)
(***************************************************************************)
EXTENDS ResolveProperties, StoreContentLemmas, SequenceTheorems, TLAPS

Places == {"idle", "override", "env", "check", "bind", "claim", "probe", "tier",
           "git_names", "git_get", "cli_get", "return"}

Probing(t) == pc[t] = "probe"

\* The steps of a call that goes through a Credentials.
Resolving(t) == pc[t] \in {"override", "env", "check", "bind", "claim", "probe", "tier"}

\* The answers that only a store tier gives.
FromStore(t) == outcome[t] \in {Unset, Fails("unset"), Ok} \/ outcome[t].kind = "names"

Probed(p) == {probes[p][i].app : i \in DOMAIN probes[p]}

-----------------------------------------------------------------------------
(* The once-per-app warning *)

Report == [app : Segment, said : {"warned", "nothing", "lost"}]

WTypeOK ==
    /\ pc \in [Thread -> Places]
    /\ creds = [t \in Thread |-> creds[t]]
    /\ outcome = [t \in Thread |-> outcome[t]]
    /\ warned \in [Process -> SUBSET Segment]
    /\ probes \in [Process -> Seq(Report)]
    /\ kept \subseteq {a \in App : Orphaned(a)}

\* What a Credentials is bound to; the programs' never had a store of their own.
CredsOK(t) ==
    creds[t] # None \/ Resolving(t) =>
         /\ creds[t].legacy \in Segment \cup {None}
         /\ creds[t].shared \in Seq(Segment)
         /\ t \in Git \cup Cli => creds[t].legacy = None

\* A thread that is about to probe is alone in that, and the first.
Claimed ==
    /\ \A t \in Thread : Probing(t) =>
         /\ creds[t].legacy \in warned[ProcOf[t]]
         /\ creds[t].legacy \notin Probed(ProcOf[t])
    /\ \A t, u \in Thread :
         Probing(t) /\ Probing(u) /\ ProcOf[t] = ProcOf[u] /\ creds[t].legacy = creds[u].legacy
            => t = u

\* A claimed app has been probed, or is about to be ...
Followed ==
    \A p \in Process : \A a \in warned[p] :
        a \in Probed(p) \/ \E u \in Thread : ProcOf[u] = p /\ Probing(u) /\ creds[u].legacy = a

\* ... once, and with a warning when it has held secrets throughout, or one lost.
ProbesOK ==
    \A p \in Process :
        /\ Probed(p) \subseteq warned[p]
        /\ \A i, j \in DOMAIN probes[p] : probes[p][i].app = probes[p][j].app => i = j
        /\ \A i \in DOMAIN probes[p] : probes[p][i].app \in kept => probes[p][i].said # "nothing"

\* A call that got as far as a store tier has claimed the app it was redirected from.
AtStore(t) == pc[t] = "tier" \/ (pc[t] = "return" /\ creds[t] # None /\ FromStore(t))

Passed(t) == AtStore(t) /\ creds[t].legacy # None => creds[t].legacy \in warned[ProcOf[t]]

WInv == /\ WTypeOK /\ Claimed /\ Followed /\ ProbesOK
        /\ \A t \in Thread : CredsOK(t) /\ Passed(t)

\* A step of t that has nothing to do with the warning.
Quiet(t) ==
    /\ UNCHANGED <<warned, probes>>
    /\ pc[t] # "probe" /\ pc'[t] \in Places \ {"probe"}
    /\ pc' = [pc EXCEPT ![t] = pc'[t]]
    /\ creds' = [creds EXCEPT ![t] = creds'[t]]
    /\ outcome' = [outcome EXCEPT ![t] = outcome'[t]]
    /\ CredsOK(t)'
    /\ AtStore(t)' => (AtStore(t) /\ creds'[t] = creds[t]) \/ creds'[t].legacy = None

\* The stores that were never empty can only become fewer.
LEMMA KeptShrinks ==
    ASSUME kept \subseteq {a \in App : Orphaned(a)}, kept' = {a \in kept : Orphaned(a)'}
    PROVE  kept' \subseteq kept /\ (kept \subseteq {a \in App : Orphaned(a)})'
PROOF OBVIOUS

\* Such a step keeps the invariant.
LEMMA QuietStep ==
    ASSUME WInv, kept' = {a \in kept : Orphaned(a)'}, NEW t \in Thread, Quiet(t)
    PROVE  WInv'
PROOF
<1>1. kept' \subseteq kept /\ (kept \subseteq {a \in App : Orphaned(a)})'
  BY KeptShrinks DEF WInv, WTypeOK
<1>2. WTypeOK'
  BY <1>1 DEF WInv, WTypeOK, Quiet
<1>3. \A u \in Thread : u # t => /\ pc'[u] = pc[u] /\ creds'[u] = creds[u]
                                 /\ outcome'[u] = outcome[u]
  BY DEF WInv, WTypeOK, Quiet
<1>4. \A u \in Thread : Probing(u)' <=> Probing(u)
  BY <1>3 DEF Probing, Quiet
<1>5. \A u \in Thread : Probing(u) => creds'[u] = creds[u]
  BY <1>3 DEF Probing, Quiet
<1>6. \A p : Probed(p)' = Probed(p)
  BY DEF Probed, Quiet
<1>7. Claimed'
  BY <1>4, <1>5, <1>6 DEF Claimed, WInv, Quiet
<1>8. Followed'
  BY <1>4, <1>5, <1>6 DEF Followed, WInv, Quiet
<1>9. ProbesOK'
  BY <1>1, <1>6 DEF ProbesOK, WInv, Quiet
<1>10. \A u \in Thread : CredsOK(u)'
  BY <1>3 DEF WInv, CredsOK, Resolving, Quiet
<1>11. \A u \in Thread : Passed(u)'
  BY <1>3 DEF WInv, Passed, AtStore, FromStore, Quiet
<1> QED BY <1>2, <1>7, <1>8, <1>9, <1>10, <1>11 DEF WInv

\* What goes on around the callers keeps it.
LEMMA SideStep ==
    ASSUME WInv, kept' = {a \in kept : Orphaned(a)'},
           UNCHANGED <<creds, warned, probes, pc, outcome>>
    PROVE  WInv'
PROOF
<1>1. kept' \subseteq kept /\ (kept \subseteq {a \in App : Orphaned(a)})'
  BY KeptShrinks DEF WInv, WTypeOK
<1>2. WTypeOK'
  BY <1>1 DEF WInv, WTypeOK
<1>3. Claimed' /\ Followed'
  BY DEF WInv, Claimed, Followed, Probing, Probed
<1>4. ProbesOK'
  BY <1>1 DEF WInv, ProbesOK, Probed
<1>5. \A u \in Thread : CredsOK(u)' /\ Passed(u)'
  BY DEF WInv, CredsOK, Passed, AtStore, FromStore, Resolving
<1> QED BY <1>2, <1>3, <1>4, <1>5 DEF WInv

\* The steps of a facade call that do not touch the warning.
LEMMA LookupIsQuiet ==
    ASSUME WInv, NEW t \in Thread,
           Override(t) \/ FromEnv(t) \/ CheckSet(t) \/ Bind(t)
             \/ Shared(t) \/ OwnRead(t) \/ OwnWrite(t)
    PROVE  Quiet(t)
PROOF
<1> USE DEF WInv, WTypeOK, Quiet, CredsOK, Resolving, AtStore, FromStore, Ends, Goto, Stays,
            Fails, Unset, Ok, Places
<1>1. CASE Override(t) BY <1>1 DEF Override
<1>2. CASE FromEnv(t) BY <1>2 DEF FromEnv
<1>3. CASE CheckSet(t) BY <1>3 DEF CheckSet
<1>4. CASE Bind(t) BY <1>4 DEF Bind
<1>5. CASE Shared(t) BY <1>5 DEF Shared
<1>6. CASE OwnRead(t) BY <1>6 DEF OwnRead
<1>7. CASE OwnWrite(t) BY <1>7 DEF OwnWrite
<1> QED BY <1>1, <1>2, <1>3, <1>4, <1>5, <1>6, <1>7

\* The other steps of a library caller.
LEMMA CallerIsQuiet ==
    ASSUME WInv, NEW t \in Thread \ (Git \cup Cli), Construct(t) \/ Call(t) \/ Return(t)
    PROVE  Quiet(t)
PROOF
<1> USE DEF WInv, WTypeOK, Quiet, CredsOK, Resolving, AtStore, Goto, Places
<1>1. CASE Construct(t)
  <2>1. PICK b \in Bindings[t] :
          creds' = [creds EXCEPT ![t] = IF b.embedded THEN for_app(b.app, b.shared, env[ProcOf[t]])
                                        ELSE Credentials(b.app, b.ns, b.shared)]
    BY <1>1 DEF Construct
  <2>2. b.app \in Segment /\ b.shared \in Seq(Segment)
    BY ResolveAssumption
  <2>3. creds'[t].legacy \in Segment \cup {None} /\ creds'[t].shared \in Seq(Segment)
    BY <2>1, <2>2 DEF for_app, Credentials
  <2> QED BY <1>1, <2>1, <2>3 DEF Construct
<1>2. CASE Call(t) BY <1>2 DEF Call, FirstStep
<1>3. CASE Return(t) BY <1>3 DEF Return
<1> QED BY <1>1, <1>2, <1>3

\* The steps of the two programs.
LEMMA ProgramIsQuiet ==
    ASSUME WInv, NEW t \in Git \cup Cli,
           \/ GitStartGet(t) \/ GitNames(t) \/ GitGet(t) \/ GitStartWrite(t)
           \/ CliStart(t) \/ CliGet(t) \/ Interrupted(t) \/ Exits(t)
    PROVE  Quiet(t)
PROOF
<1> USE FrontendAssumption
    DEF WInv, WTypeOK, Quiet, CredsOK, Resolving, AtStore, Goto, Places, Begins, Rest
<1>1. pc[t] # "probe"
  <2>1. None \notin Segment /\ ProcOf[t] \in Process /\ t \in Thread
    BY ResolveAssumption DEF Segment, Process
  <2> QED BY <2>1 DEF Claimed, Probing
<1>2. CASE GitStartGet(t) BY <1>2 DEF GitStartGet, Declines, Reads
<1>3. CASE GitNames(t) BY <1>3 DEF GitNames, Prints, Ends
<1>4. CASE GitGet(t) BY <1>4 DEF GitGet, Prints, Ends
<1>5. CASE GitStartWrite(t)
  <2>1. PICK r \in GitRequests :
          \/ Declines(t, r)
          \/ Delegates(t, Credentials(_host_to_segment(r.host), None, <<>>), r)
    BY <1>5 DEF GitStartWrite
  <2>2. CASE Declines(t, r) BY <1>5, <2>2 DEF GitStartWrite, Declines
  <2>3. CASE Delegates(t, Credentials(_host_to_segment(r.host), None, <<>>), r)
    <3>1. PICK cr : cr = Credentials(_host_to_segment(r.host), None, <<>>)
      OBVIOUS
    <3>2. cr.legacy = None /\ cr.shared \in Seq(Segment)
      BY <3>1 DEF Credentials
    <3> QED BY <1>5, <2>3, <3>1, <3>2 DEF GitStartWrite, Delegates, FirstStep
  <2> QED BY <2>1, <2>2, <2>3
<1>6. CASE CliStart(t)
  <2>a. PICK r \in CliRequests : \E ns :
          \/ Declines(t, r)
          \/ Reads(t, "cli_get", [r EXCEPT !.ns = ns])
          \/ Delegates(t, Credentials(r.app, ns, <<>>), r)
    BY <1>6 DEF CliStart
  <2>1. PICK ns :
          \/ Declines(t, r)
          \/ Reads(t, "cli_get", [r EXCEPT !.ns = ns])
          \/ Delegates(t, Credentials(r.app, ns, <<>>), r)
    BY <2>a
  <2>2. CASE Declines(t, r) BY <1>6, <2>2 DEF CliStart, Declines
  <2>3. CASE Reads(t, "cli_get", [r EXCEPT !.ns = ns]) BY <1>6, <2>3 DEF CliStart, Reads
  <2>4. CASE Delegates(t, Credentials(r.app, ns, <<>>), r)
    <3>1. PICK cr : cr = Credentials(r.app, ns, <<>>)
      OBVIOUS
    <3>2. cr.legacy = None /\ cr.shared \in Seq(Segment)
      BY <3>1 DEF Credentials
    <3> QED BY <1>6, <2>4, <3>1, <3>2 DEF CliStart, Delegates, FirstStep
  <2> QED BY <2>1, <2>2, <2>3, <2>4
<1>7. CASE CliGet(t) BY <1>7 DEF CliGet, Prints, Ends
<1>8. CASE Interrupted(t) BY <1>1, <1>8 DEF Interrupted
<1>9. CASE Exits(t) BY <1>9 DEF Exits
<1> QED BY <1>2, <1>3, <1>4, <1>5, <1>6, <1>7, <1>8, <1>9

\* The claim, under _warn_lock, makes the claimant the only one to probe.
LEMMA ClaimStep ==
    ASSUME WInv, kept' = {a \in kept : Orphaned(a)'}, NEW t \in Thread, Claim(t)
    PROVE  WInv'
PROOF
<1> DEFINE q == ProcOf[t]
           a == creds[t].legacy
<1>1. CASE ~Armed(t)
  <2>1. /\ pc[t] = "claim" /\ pc' = [pc EXCEPT ![t] = "tier"]
        /\ UNCHANGED <<creds, warned, probes, outcome>>
    BY <1>1 DEF Claim, Goto, Stays
  <2>2. creds[t].legacy # None => creds[t].legacy \in warned[q]
    BY <1>1 DEF Armed, WarnKey
  <2>3. kept' \subseteq kept /\ (kept \subseteq {b \in App : Orphaned(b)})'
    BY KeptShrinks DEF WInv, WTypeOK
  <2>4. WTypeOK'
    BY <2>1, <2>3 DEF WInv, WTypeOK, Places
  <2>5. pc'[t] = "tier" /\ \A u \in Thread : u # t => pc'[u] = pc[u]
    BY <2>1 DEF WInv, WTypeOK
  <2>6. Claimed' /\ Followed'
    <3>1. \A u \in Thread : Probing(u)' <=> Probing(u)
      BY <2>1, <2>5 DEF Probing
    <3>2. \A p : Probed(p)' = Probed(p)
      BY <2>1 DEF Probed
    <3> QED BY <2>1, <3>1, <3>2 DEF WInv, Claimed, Followed
  <2>7. ProbesOK'
    BY <2>1, <2>3 DEF WInv, ProbesOK, Probed
  <2>8. \A u \in Thread : CredsOK(u)' /\ Passed(u)'
    BY <2>1, <2>2, <2>5 DEF WInv, CredsOK, Passed, AtStore, FromStore, Resolving
  <2> QED BY <2>4, <2>6, <2>7, <2>8 DEF WInv
<1>2. CASE Armed(t)
  <2>1. /\ pc[t] = "claim" /\ pc' = [pc EXCEPT ![t] = "probe"]
        /\ warned' = [warned EXCEPT ![q] = @ \cup {a}]
        /\ UNCHANGED <<creds, probes, outcome>>
    BY <1>2 DEF Claim, Goto, Stays, WarnKey
  <2>2. /\ q \in Process /\ a \in Segment /\ a \notin warned[q] /\ a \notin Probed(q)
    BY <1>2, <2>1 DEF WInv, CredsOK, Resolving, Armed, WarnKey, ProbesOK, Process
  <2>3. kept' \subseteq kept /\ (kept \subseteq {b \in App : Orphaned(b)})'
    BY KeptShrinks DEF WInv, WTypeOK
  <2>4. WTypeOK'
    BY <2>1, <2>2, <2>3 DEF WInv, WTypeOK, Places
  <2>5. /\ warned'[q] = warned[q] \cup {a}
        /\ \A p \in Process : p # q => warned'[p] = warned[p]
        /\ \A p : Probed(p)' = Probed(p)
        /\ pc'[t] = "probe" /\ \A u \in Thread : u # t => pc'[u] = pc[u]
    BY <2>1, <2>2 DEF WInv, WTypeOK, Probed
  <2>6. \A u \in Thread : Probing(u) /\ ProcOf[u] = q => creds[u].legacy # a
    BY <2>2 DEF WInv, Claimed
  <2>7. Claimed'
    BY <2>1, <2>2, <2>5, <2>6 DEF WInv, Claimed, Probing, Process
  <2>8. Followed'
    BY <2>1, <2>2, <2>5 DEF WInv, Followed, Probing
  <2>9. ProbesOK'
    BY <2>1, <2>2, <2>3, <2>5 DEF WInv, ProbesOK
  <2>10. \A u \in Thread : CredsOK(u)' /\ Passed(u)'
    BY <2>1, <2>2, <2>5 DEF WInv, CredsOK, Passed, AtStore, FromStore, Resolving, Process
  <2> QED BY <2>4, <2>7, <2>8, <2>9, <2>10 DEF WInv
<1> QED BY <1>1, <1>2

\* The read of the legacy store adds one entry, of an app not read before.
LEMMA ProbeStep ==
    ASSUME WInv, kept' = {a \in kept : Orphaned(a)'}, NEW t \in Thread,
           Probe(t) \/ ProbeFails(t)
    PROVE  WInv'
PROOF
<1> DEFINE q == ProcOf[t]
           a == creds[t].legacy
           n == Len(probes[q]) + 1
<1>1. PICK w \in {"warned", "nothing", "lost"} : Told(t, w) /\ (Orphaned(a) => w # "nothing")
  <2>1. CASE Probe(t)
    <3>1. Told(t, "warned") \/ (Told(t, "nothing") /\ ~Orphaned(a))
      BY <2>1 DEF Probe
    <3> QED BY <3>1
  <2>2. CASE ProbeFails(t)
    BY <2>2 DEF ProbeFails
  <2> QED BY <2>1, <2>2
<1>2. /\ pc[t] = "probe" /\ pc' = [pc EXCEPT ![t] = "tier"]
      /\ probes' = [probes EXCEPT ![q] = Append(@, [app |-> a, said |-> w])]
      /\ UNCHANGED <<creds, warned, outcome>>
  BY <1>1 DEF Told, Probe, ProbeFails, Goto, Stays
<1>3. /\ q \in Process /\ a \in Segment /\ a \in warned[q] /\ a \notin Probed(q)
      /\ \A u \in Thread : u # t /\ Probing(u) /\ ProcOf[u] = q => creds[u].legacy # a
  BY <1>2 DEF WInv, WTypeOK, Claimed, Probing, Process
<1>5. kept' \subseteq kept /\ (kept \subseteq {b \in App : Orphaned(b)})'
  BY KeptShrinks DEF WInv, WTypeOK
<1>6. /\ probes[q] \in Seq(Report)
      /\ probes'[q] = Append(probes[q], [app |-> a, said |-> w])
      /\ \A p \in Process : p # q => probes'[p] = probes[p]
  BY <1>2, <1>3 DEF WInv, WTypeOK
<1>7. /\ DOMAIN probes'[q] = DOMAIN probes[q] \cup {n} /\ n \notin DOMAIN probes[q]
      /\ probes'[q][n] = [app |-> a, said |-> w]
      /\ \A i \in DOMAIN probes[q] : probes'[q][i] = probes[q][i]
  BY <1>6
<1>8. WTypeOK'
  <2>1. [app |-> a, said |-> w] \in Report
    BY <1>1, <1>3 DEF Report
  <2>2. PICK e : e = [app |-> a, said |-> w]
    OBVIOUS
  <2>3. Append(probes[q], e) \in Seq(Report)
    BY <1>6, <2>1, <2>2
  <2>4. probes' \in [Process -> Seq(Report)]
    BY <1>2, <2>2, <2>3 DEF WInv, WTypeOK
  <2> QED BY <1>2, <1>5, <2>4 DEF WInv, WTypeOK, Places
<1>9. /\ Probed(q)' = Probed(q) \cup {a}
      /\ \A p \in Process : p # q => Probed(p)' = Probed(p)
  BY <1>6, <1>7 DEF Probed
<1>10. /\ pc'[t] = "tier" /\ \A u \in Thread : u # t => pc'[u] = pc[u]
  BY <1>2 DEF WInv, WTypeOK
<1>11. Claimed'
  BY <1>2, <1>3, <1>9, <1>10 DEF WInv, Claimed, Probing, Process
<1>12. Followed'
  BY <1>2, <1>3, <1>9, <1>10 DEF WInv, Followed, Probing
<1>13. ProbesOK => \A p \in Process \ {q} :
          /\ Probed(p)' \subseteq warned'[p]
          /\ \A i, j \in DOMAIN probes'[p] : probes'[p][i].app = probes'[p][j].app => i = j
          /\ \A i \in DOMAIN probes'[p] : probes'[p][i].app \in kept' => probes'[p][i].said # "nothing"
  BY <1>2, <1>5, <1>6, <1>9 DEF ProbesOK
<1>14. Probed(q)' \subseteq warned'[q]
  BY <1>2, <1>3, <1>9 DEF WInv, ProbesOK
<1>15. \A i \in DOMAIN probes[q] : probes[q][i].app # a
  BY <1>3 DEF Probed
<1>16. \A i, j \in DOMAIN probes'[q] : probes'[q][i].app = probes'[q][j].app => i = j
  BY <1>3, <1>7, <1>15 DEF WInv, ProbesOK
<1>17. \A i \in DOMAIN probes'[q] : probes'[q][i].app \in kept' => probes'[q][i].said # "nothing"
  <2>1. a \in kept => w # "nothing"
    BY <1>1 DEF WInv, WTypeOK
  <2> QED BY <1>3, <1>5, <1>7, <2>1 DEF WInv, ProbesOK
<1>18. ProbesOK'
  BY <1>13, <1>14, <1>16, <1>17 DEF WInv, ProbesOK
<1>19. \A u \in Thread : CredsOK(u)' /\ Passed(u)'
  BY <1>2, <1>3, <1>10 DEF WInv, CredsOK, Passed, AtStore, FromStore, Resolving
<1> QED BY <1>8, <1>11, <1>12, <1>18, <1>19 DEF WInv

\* The warning holds together in every behaviour.
THEOREM WarningInvariance == HSpec => []WInv
PROOF
<1>1. HInit => WInv
  <2> SUFFICES ASSUME HInit PROVE WInv
    OBVIOUS
  <2> USE DEF HInit, Init
  <2>1. WTypeOK
    BY DEF WTypeOK, Places
  <2>2. Claimed /\ Followed /\ ProbesOK
    BY DEF Claimed, Followed, ProbesOK, Probing, Probed
  <2>3. \A t \in Thread : CredsOK(t) /\ Passed(t)
    BY DEF CredsOK, Passed, AtStore, Resolving
  <2> QED BY <2>1, <2>2, <2>3 DEF WInv
<1>2. WInv /\ [HNext]_hvars => WInv'
  <2> SUFFICES ASSUME WInv, [HNext]_hvars PROVE WInv'
    OBVIOUS
  <2>1. CASE UNCHANGED hvars
    <3>1. UNCHANGED <<creds, warned, probes, pc, outcome, stores, kept>>
      BY <2>1 DEF hvars, rvars
    <3>2. WTypeOK'
      BY <3>1 DEF WInv, WTypeOK, Orphaned
    <3> QED BY <3>1, <3>2 DEF WInv, Claimed, Followed, ProbesOK, Probing, Probed, CredsOK, Passed,
                              AtStore, FromStore, Resolving
  <2>2. CASE HNext
    <3>1. kept' = {a \in kept : Orphaned(a)'} /\ FNext
      BY <2>2 DEF HNext
    <3>2. ASSUME NEW t \in Thread, Lookups(t) PROVE WInv'
      BY <3>1, <3>2, LookupIsQuiet, QuietStep, ClaimStep, ProbeStep DEF Lookups
    <3>3. ASSUME NEW t \in Thread \ (Git \cup Cli), Facade(t) PROVE WInv'
      BY <3>1, <3>2, <3>3, CallerIsQuiet, QuietStep DEF Facade
    <3>4. ASSUME NEW t \in Git \cup Cli,
                 \/ GitStartGet(t) \/ GitNames(t) \/ GitGet(t) \/ GitStartWrite(t)
                 \/ CliStart(t) \/ CliGet(t) \/ Interrupted(t) \/ Exits(t)
          PROVE  WInv'
      BY <3>1, <3>4, ProgramIsQuiet, QuietStep, FrontendAssumption
    <3>5. ASSUME (\E p \in Process : SetEnv(p)) \/ EditStore PROVE WInv'
      BY <3>1, <3>5, SideStep DEF SetEnv, EditStore
    <3> QED BY <3>1, <3>2, <3>3, <3>4, <3>5, FrontendAssumption DEF FNext, Program
  <2> QED BY <2>1, <2>2 DEF HNext
<1> QED BY <1>1, <1>2, PTL DEF HSpec

\* One read of a legacy store per app and process, whatever the threads do.
THEOREM LegacyProbedOnce == HSpec => []ProbedOnce
PROOF
<1>1. WInv => ProbedOnce
  BY DEF WInv, ProbesOK, ProbedOnce
<1> QED BY <1>1, WarningInvariance, PTL

\* No component whose former store held secrets all along gets an answer from
\* its new store before its process has looked there and warned (or lost the
\* warning to a swallowed failure), or is just doing so.
THEOREM OrphansAreAnnounced == HSpec => []OrphanAnnounced
PROOF
<1>1. WInv => OrphanAnnounced
  <2> SUFFICES ASSUME WInv, NEW t \in Thread, pc[t] = "return", creds[t] # None,
                      creds[t].legacy \in kept, FromStore(t)
               PROVE  \/ \E i \in DOMAIN probes[ProcOf[t]] :
                           /\ probes[ProcOf[t]][i].app = creds[t].legacy
                           /\ probes[ProcOf[t]][i].said \in {"warned", "lost"}
                      \/ \E u \in Thread : /\ ProcOf[u] = ProcOf[t] /\ pc[u] = "probe"
                                           /\ creds[u].legacy = creds[t].legacy
    BY DEF OrphanAnnounced, FromStore
  <2> DEFINE q == ProcOf[t]
  <2>1. creds[t].legacy # None /\ q \in Process
    BY ResolveAssumption DEF WInv, WTypeOK, Process
  <2>2. creds[t].legacy \in warned[q]
    BY <2>1 DEF WInv, Passed, AtStore
  <2>3. CASE creds[t].legacy \in Probed(q)
    <3>1. PICK i \in DOMAIN probes[q] : probes[q][i].app = creds[t].legacy
      BY <2>3 DEF Probed
    <3>2. probes[q] \in Seq(Report)
      BY <2>1 DEF WInv, WTypeOK
    <3>3. probes[q][i] \in Report
      <4> DEFINE ps == probes[q]
      <4>1. ps \in Seq(Report) /\ i \in DOMAIN ps
        BY <3>1, <3>2
      <4> HIDE DEF ps
      <4>2. ps[i] \in Report
        BY <4>1
      <4> QED BY <4>2 DEF ps
    <3>4. probes[q][i].said # "nothing"
      BY <2>1, <3>1, <3>3 DEF WInv, ProbesOK
    <3>5. probes[q][i].said \in {"warned", "lost"}
      BY <3>3, <3>4 DEF Report
    <3> QED BY <3>1, <3>5
  <2>4. CASE creds[t].legacy \notin Probed(q)
    BY <2>1, <2>2, <2>4 DEF WInv, Followed, Probing
  <2> QED BY <2>3, <2>4
<1> QED BY <1>1, WarningInvariance, PTL

-----------------------------------------------------------------------------
(* The tiers of a lookup, and the plain gets *)

\* What every place of a lookup holds now is in its history.
Current(t) ==
    LET c == call[t]
        cr == creds[t]
        n == Len(cr.shared)
    IN  /\ seen[t] = [i \in 1 .. n + 3 |-> seen[t][i]]
        /\ Clean(c.override) \in seen[t][1]
        /\ env_value(env[ProcOf[t]].secrets[c.name]) \in seen[t][2]
        /\ \A i \in 1 .. n : StoreTier(cr, cr.shared[i], None, c.name) \in seen[t][i + 2]
        /\ StoreTier(cr, cr.app, cr.ns, c.name) \in seen[t][n + 3]

\* How many shared stores the lookup is through with.
Done(t) == Len(creds[t].shared) - Len(shared[t])

\* Each place it has left behind was unset when it was consulted.
SoFar(t) ==
    /\ Current(t)
    /\ pc[t] # "override" => None \in seen[t][1]
    /\ pc[t] \notin {"override", "env"} => None \in seen[t][2]
    /\ pc[t] \in {"claim", "probe", "tier"} =>
         /\ Bound(creds[t])
         /\ shared[t] \in Seq(Segment) /\ Len(shared[t]) <= Len(creds[t].shared)
         /\ \A i \in 1 .. Len(shared[t]) : shared[t][i] = creds[t].shared[Done(t) + i]
         /\ \A j \in 1 .. Done(t) : None \in seen[t][j + 2]

Looking(t) == pc[t] \in {"override", "env", "bind", "claim", "probe", "tier"} /\ IsLookup(call[t])

\* The request behind each step.
KindOK(t) ==
    /\ pc[t] \in {"override", "env"} => IsLookup(call[t])
    /\ pc[t] = "check" => ~IsLookup(call[t])
    /\ pc[t] \in {"git_names", "git_get"} => call[t] \in GitGets /\ call[t].protocol \in _TLS_PROTOCOLS
    /\ pc[t] = "cli_get" => call[t] \in CliGets
    /\ Resolving(t) /\ t \in Git \cup Cli => call[t].kind \notin {"git_get", "cli_get"}

\* A plain get under way watches one store, and a name it chose was the only one.
Plain(t) ==
    /\ seen[t] = [i \in 1 .. 1 |-> seen[t][i]]
    /\ stores[call[t].app] \in seen[t][1]
    /\ (pc[t] = "git_get" /\ call[t].sole) =>
         \E c \in seen[t][1] : Loads(c, None) /\ NamesOf(Loaded(c), None) = {call[t].name}

\* What an answered call owes: the two properties, of one thread.
Decided(t) ==
    LET r == outcome[t]
        Reached(i) == \A j \in 1 .. i - 1 : None \in seen[t][j]
    IN  pc[t] = "return" /\ IsLookup(call[t]) /\ r # Nothing =>
          IF r = Unset \/ r = Fails("unset") THEN Reached(Len(seen[t]) + 1)
          ELSE \E i \in DOMAIN seen[t] :
                 /\ Reached(i)
                 /\ IF r.kind = "value" THEN r.value \in seen[t][i] ELSE "fault" \in seen[t][i]

Answered(t) ==
    pc[t] = "return" /\ call[t].kind \in {"git_get", "cli_get"}
    /\ outcome[t].kind \in {"reply", "value"} /\ outcome[t] # Unset =>
        LET r  == call[t]
            ns == IF r.kind = "cli_get" THEN r.ns ELSE None
        IN  /\ Len(seen[t]) = 1
            /\ \E c \in seen[t][1] : Loads(c, ns) /\ Lookup(Loaded(c), ns, r.name) = outcome[t].value
            /\ r.kind = "git_get" =>
                 r.protocol \in {"https", "ftps"} /\ {r.name, outcome[t].value} \cap Unwritable = {}
            /\ (r.kind = "git_get" /\ r.sole) =>
                 \E c \in seen[t][1] : Loads(c, None) /\ NamesOf(Loaded(c), None) = {r.name}

LInvOf(t) ==
    /\ KindOK(t)
    /\ Looking(t) => SoFar(t)
    /\ pc[t] \in {"git_names", "git_get", "cli_get"} => Plain(t)
    /\ Decided(t)
    /\ t \in Git \cup Cli => Answered(t)

LInv == /\ WInv
        /\ call = [t \in Thread |-> call[t]]
        /\ shared = [t \in Thread |-> shared[t]]
        /\ \A t \in Thread : LInvOf(t)

Tiers(a, b, f, n, d) == <<a, b>> \o [i \in 1 .. n |-> f[i]] \o <<d>>

Layout(a, b, f, n, d) ==
    [i \in 1 .. n + 3 |-> IF i = 1 THEN a ELSE IF i = 2 THEN b
                          ELSE IF i = n + 3 THEN d ELSE f[i - 2]]

\* The layout of a lookup's sources: two places, the shared stores, the own store.
LEMMA FourTiers ==
    ASSUME NEW a, NEW b, NEW d, NEW n \in Nat, NEW f
    PROVE  Tiers(a, b, f, n, d) = Layout(a, b, f, n, d)
PROOF
<1> DEFINE m == [i \in 1 .. n |-> f[i]]
           p == <<a, b>>
           q == <<d>>
           S == {a, b, d} \cup {f[i] : i \in 1 .. n}
<1>1. m \in Seq(S) /\ p \in Seq(S) /\ q \in Seq(S)
  OBVIOUS
<1>2. /\ Len(m) = n /\ \A i \in 1 .. n : m[i] = f[i]
      /\ Len(p) = 2 /\ p[1] = a /\ p[2] = b
      /\ Len(q) = 1 /\ q[1] = d
  OBVIOUS
<1> HIDE DEF m, p, q, S
<1>3. /\ p \o m \in Seq(S) /\ Len(p \o m) = n + 2
      /\ \A i \in 1 .. n + 2 : (p \o m)[i] = IF i <= 2 THEN p[i] ELSE m[i - 2]
  <2>1. /\ p \o m \in Seq(S) /\ Len(p \o m) = Len(p) + Len(m)
        /\ \A i \in 1 .. Len(p) + Len(m) :
             (p \o m)[i] = IF i <= Len(p) THEN p[i] ELSE m[i - Len(p)]
    BY <1>1, ConcatProperties, Zenon
  <2> QED BY <1>2, <2>1
<1>4. PICK x : x = p \o m
  OBVIOUS
<1>5. /\ x \o q \in Seq(S) /\ Len(x \o q) = n + 3
      /\ \A i \in 1 .. n + 3 : (x \o q)[i] = IF i <= n + 2 THEN x[i] ELSE q[i - (n + 2)]
  <2>0. x \in Seq(S)
    BY <1>3, <1>4
  <2>1. /\ x \o q \in Seq(S) /\ Len(x \o q) = Len(x) + Len(q)
        /\ \A i \in 1 .. Len(x) + Len(q) :
             (x \o q)[i] = IF i <= Len(x) THEN x[i] ELSE q[i - Len(x)]
    BY <1>1, <2>0, ConcatProperties, Zenon
  <2> QED BY <1>2, <1>3, <1>4, <2>1
<1>6. PICK y : y = x \o q
  OBVIOUS
<1>7. y \in Seq(S) /\ Len(y) = n + 3
  BY <1>5, <1>6
<1>8. y = [i \in 1 .. n + 3 |-> y[i]]
  BY <1>7
<1>9. ASSUME NEW i \in 1 .. n + 3
      PROVE  y[i] = IF i = 1 THEN a ELSE IF i = 2 THEN b
                    ELSE IF i = n + 3 THEN d ELSE f[i - 2]
  <2>1. CASE i \in {1, 2}
    BY <1>2, <1>3, <1>4, <1>5, <1>6, <2>1
  <2>2. CASE i \in 3 .. n + 2
    BY <1>2, <1>3, <1>4, <1>5, <1>6, <2>2
  <2>3. CASE i = n + 3
    BY <1>2, <1>5, <1>6, <2>3
  <2> QED BY <2>1, <2>2, <2>3
<1>10. y = [i \in 1 .. n + 3 |-> IF i = 1 THEN a ELSE IF i = 2 THEN b
                                 ELSE IF i = n + 3 THEN d ELSE f[i - 2]]
  BY <1>8, <1>9
<1> QED BY <1>4, <1>6, <1>10 DEF m, p, q, Tiers, Layout

\* A step in the course of a lookup, of any thread, brings its history up to date
\* and forgets nothing.
LEMMA HistoryGrows ==
    ASSUME NEW t \in Thread, IsLookup(call'[t]), creds'[t].shared \in Seq(Segment),
           pc'[t] # "idle", pc[t] # "return", pc'[t] # "return" \/ IsLookup(call[t]),
           seen'[t] = Watched(t)
    PROVE  /\ Current(t)'
           /\ \A i \in 1 .. Len(creds'[t].shared) + 3 :
                i \in DOMAIN seen[t] => seen[t][i] \subseteq seen'[t][i]
PROOF
<1> DEFINE n == Len(creds'[t].shared)
           tier(i) == StoreTier(creds[t], creds[t].shared[i], None, call[t].name)'
<1>1. PICK a, b, d, f :
        /\ a = Clean(call'[t].override)
        /\ b = env_value(env'[ProcOf[t]].secrets[call'[t].name])
        /\ d = StoreTier(creds[t], creds[t].app, creds[t].ns, call[t].name)'
        /\ f = [i \in 1 .. n |-> tier(i)]
  OBVIOUS
<1>2. n \in Nat /\ DOMAIN creds'[t].shared = 1 .. n
  OBVIOUS
<1>3. PICK now : now = Sources(t)'
  OBVIOUS
<1>4. now = Tiers(a, b, f, n, d)
  BY <1>1, <1>2, <1>3 DEF Sources, Tiers
<1>5. now = Layout(a, b, f, n, d)
  BY <1>2, <1>4, FourTiers
<1>6. seen'[t] = [i \in DOMAIN now |-> {now[i]} \cup (IF i \in DOMAIN seen[t] THEN seen[t][i] ELSE {})]
  BY <1>3 DEF Watched
<1>7. DOMAIN now = 1 .. n + 3
  BY <1>5 DEF Layout
<1>8. /\ now[1] = a /\ now[2] = b /\ now[n + 3] = d
      /\ \A i \in 1 .. n : now[i + 2] = tier(i)
  <2>1. PICK k \in Nat : k = n
    BY <1>2
  <2>2. now = [i \in 1 .. k + 3 |-> IF i = 1 THEN a ELSE IF i = 2 THEN b
                                   ELSE IF i = k + 3 THEN d ELSE f[i - 2]]
    BY <1>5, <2>1 DEF Layout
  <2>3. now[1] = a /\ now[2] = b /\ now[k + 3] = d
    BY <2>2
  <2>4. ASSUME NEW i \in 1 .. k PROVE now[i + 2] = tier(i)
    <3>1. /\ i + 2 \in 1 .. k + 3 /\ i + 2 # 1 /\ i + 2 # 2 /\ i + 2 # k + 3
          /\ (i + 2) - 2 = i
      OBVIOUS
    <3>2. now[i + 2] = f[i]
      BY <2>2, <3>1
    <3> QED BY <1>1, <2>1, <3>2
  <2> QED BY <2>1, <2>3, <2>4
<1>9. /\ seen'[t] = [i \in 1 .. n + 3 |-> seen'[t][i]]
      /\ \A i \in 1 .. n + 3 : now[i] \in seen'[t][i]
  BY <1>6, <1>7
<1>10. Current(t)'
  <2>1. 1 \in 1 .. n + 3 /\ 2 \in 1 .. n + 3 /\ n + 3 \in 1 .. n + 3
        /\ \A i \in 1 .. n : i + 2 \in 1 .. n + 3
    BY <1>2
  <2>2. /\ a \in seen'[t][1] /\ b \in seen'[t][2] /\ d \in seen'[t][n + 3]
        /\ \A i \in 1 .. n : tier(i) \in seen'[t][i + 2]
    BY <2>1, <1>8, <1>9
  <2> QED BY <1>1, <1>9, <2>2 DEF Current
<1> QED BY <1>6, <1>7, <1>10

\* A history with an entry for each of n places is n long.
LEMMA HistoryLength ==
    ASSUME NEW h, NEW n \in Nat, h = [i \in 1 .. n |-> h[i]]
    PROVE  Len(h) = n /\ DOMAIN h = 1 .. n
PROOF
<1>1. h \in [1 .. n -> {h[i] : i \in 1 .. n}]
  OBVIOUS
<1>2. h \in Seq({h[i] : i \in 1 .. n})
  BY <1>1, SeqDef
<1> QED BY <1>1, <1>2

\* While t does nothing, whatever the others do, its part of the invariant stands.
LEMMA OthersStep ==
    ASSUME LInv, NEW t \in Thread,
           pc'[t] = pc[t], call'[t] = call[t], creds'[t] = creds[t],
           shared'[t] = shared[t], outcome'[t] = outcome[t],
           seen'[t] = Watched(t)
    PROVE  LInvOf(t)'
PROOF
<1>1. KindOK(t)'
  BY DEF LInv, LInvOf, KindOK, Resolving
<1>2. ASSUME Looking(t)' PROVE SoFar(t)'
  <2>1. Looking(t) /\ SoFar(t)
    BY <1>2 DEF Looking, LInv, LInvOf
  <2>2. creds[t].shared \in Seq(Segment)
    BY <2>1 DEF Looking, LInv, WInv, CredsOK, Resolving
  <2>3. /\ Current(t)'
        /\ \A i \in 1 .. Len(creds[t].shared) + 3 :
             i \in DOMAIN seen[t] => seen[t][i] \subseteq seen'[t][i]
    BY <2>1, <2>2, HistoryGrows DEF Looking
  <2>4. DOMAIN seen[t] = 1 .. Len(creds[t].shared) + 3 /\ Len(creds[t].shared) \in Nat
    BY <2>1, <2>2 DEF SoFar, Current
  <2>5. \A i \in 1 .. Len(creds[t].shared) + 3 : None \in seen[t][i] => None \in seen'[t][i]
    BY <2>3, <2>4
  <2>6. pc[t] \in {"claim", "probe", "tier"} => \A j \in 1 .. Done(t) : j + 2 \in 1 .. Len(creds[t].shared) + 3
    BY <2>1, <2>4 DEF SoFar, Done
  <2>7. Done(t)' = Done(t)
    BY DEF Done
  <2> QED BY <2>1, <2>3, <2>4, <2>5, <2>6, <2>7 DEF SoFar
<1>3. ASSUME pc'[t] \in {"git_names", "git_get", "cli_get"} PROVE Plain(t)'
  <2>1. Plain(t) /\ call[t] \in GitGets \cup CliGets
    BY <1>3 DEF LInv, LInvOf, KindOK
  <2>2. /\ ~IsLookup(call[t]) /\ call[t] # None /\ call[t].kind \in {"git_get", "cli_get"}
    BY <2>1, FrontendAssumption DEF IsLookup, GitGets, CliGets
  <2>3. PICK now : now = Sources(t)'
    OBVIOUS
  <2>4. now = <<stores'[call[t].app]>>
    BY <1>3, <2>2, <2>3 DEF Sources
  <2>5. seen'[t] = [i \in DOMAIN now |-> {now[i]} \cup (IF i \in DOMAIN seen[t] THEN seen[t][i] ELSE {})]
    BY <1>3, <2>2, <2>3 DEF Watched
  <2>6. DOMAIN now = 1 .. 1 /\ now[1] = stores'[call[t].app]
    BY <2>4
  <2>7. /\ seen'[t] = [i \in 1 .. 1 |-> seen'[t][i]]
        /\ stores'[call[t].app] \in seen'[t][1]
        /\ seen[t][1] \subseteq seen'[t][1]
    BY <2>1, <2>5, <2>6 DEF Plain
  <2> QED BY <2>1, <2>7 DEF Plain
<1>4. pc[t] = "return" => seen'[t] = seen[t]
  BY DEF Watched
<1>5. Decided(t)'
  BY <1>4 DEF Decided, LInv, LInvOf
<1>6. ASSUME t \in Git \cup Cli PROVE Answered(t)'
  <2>1. Answered(t)
    BY <1>6 DEF LInv, LInvOf
  <2> QED BY <1>4, <2>1 DEF Answered
<1> QED BY <1>1, <1>2, <1>3, <1>5, <1>6 DEF LInvOf

\* A step of t within a lookup keeps the lookup's history current.
LEMMA Advances ==
    ASSUME LInv, NEW t \in Thread, Looking(t), call'[t] = call[t], creds'[t] = creds[t],
           pc'[t] # "idle", seen'[t] = Watched(t)
    PROVE  /\ Current(t)'
           /\ Len(creds[t].shared) \in Nat
           /\ \A i \in 1 .. Len(creds[t].shared) + 3 : seen[t][i] \subseteq seen'[t][i]
           /\ DOMAIN seen'[t] = 1 .. Len(creds[t].shared) + 3
           /\ Len(seen'[t]) = Len(creds[t].shared) + 3
PROOF
<1> DEFINE n == Len(creds[t].shared)
<1>1. SoFar(t) /\ IsLookup(call[t])
  BY DEF LInv, LInvOf, Looking
<1>2. creds[t].shared \in Seq(Segment)
  BY DEF Looking, LInv, WInv, CredsOK, Resolving
<1>3. n \in Nat
  BY <1>2
<1>4. /\ Current(t)'
      /\ \A i \in 1 .. n + 3 : i \in DOMAIN seen[t] => seen[t][i] \subseteq seen'[t][i]
  BY <1>1, <1>2, HistoryGrows DEF Looking
<1>5. DOMAIN seen[t] = 1 .. n + 3
  BY <1>1 DEF SoFar, Current
<1>6. seen'[t] = [i \in 1 .. n + 3 |-> seen'[t][i]]
  BY <1>4 DEF Current
<1>7. Len(seen'[t]) = n + 3 /\ DOMAIN seen'[t] = 1 .. n + 3
  <2>1. PICK k \in Nat : k = n + 3
    BY <1>3
  <2> QED BY <1>6, <2>1, HistoryLength
<1> QED BY <1>3, <1>4, <1>5, <1>7

\* A lookup ends well: unset with every place unset, or with what a place held
\* that has only unset places before it.
LEMMA LookupEnds ==
    ASSUME LInv, NEW t \in Thread, Looking(t), call'[t] = call[t], creds'[t] = creds[t],
           pc'[t] = "return", seen'[t] = Watched(t),
           NEW r,
           outcome'[t] = IF r = Unset /\ call[t].kind = "require" THEN Fails("unset") ELSE r,
           \/ r = Unset /\ \A j \in 1 .. Len(creds[t].shared) + 3 : None \in seen[t][j]
           \/ /\ r # Unset /\ r # Fails("unset")
              /\ \E i \in 1 .. Len(creds[t].shared) + 3 :
                   /\ \A j \in 1 .. i - 1 : None \in seen[t][j]
                   /\ IF r.kind = "value" THEN r.value \in seen[t][i] ELSE "fault" \in seen[t][i]
    PROVE  LInvOf(t)'
PROOF
<1> DEFINE n == Len(creds[t].shared)
<1>1. /\ n \in Nat
      /\ \A i \in 1 .. n + 3 : seen[t][i] \subseteq seen'[t][i]
      /\ DOMAIN seen'[t] = 1 .. n + 3 /\ Len(seen'[t]) = n + 3
  BY Advances
<1>2. IsLookup(call[t])
  BY DEF Looking
<1>3. Decided(t)'
  <2>1. CASE r = Unset /\ \A j \in 1 .. n + 3 : None \in seen[t][j]
    <3>1. outcome'[t] \in {Unset, Fails("unset")}
      BY <2>1
    <3>2. \A j \in 1 .. Len(seen'[t]) : None \in seen'[t][j]
      BY <1>1, <2>1
    <3>3. \A j \in 1 .. (Len(seen'[t]) + 1) - 1 : None \in seen'[t][j]
      BY <1>1, <3>2
    <3> QED BY <3>1, <3>3 DEF Decided
  <2>2. CASE r # Unset /\ r # Fails("unset")
    <3>1. outcome'[t] = r
      BY <2>2
    <3>2. PICK i \in 1 .. n + 3 :
            /\ \A j \in 1 .. i - 1 : None \in seen[t][j]
            /\ IF r.kind = "value" THEN r.value \in seen[t][i] ELSE "fault" \in seen[t][i]
      BY <2>2
    <3>3. \A j \in 1 .. i - 1 : None \in seen'[t][j]
      BY <1>1, <3>2
    <3>4. IF r.kind = "value" THEN r.value \in seen'[t][i] ELSE "fault" \in seen'[t][i]
      BY <1>1, <3>2
    <3>5. i \in DOMAIN seen'[t]
      BY <1>1
    <3> QED BY <2>2, <3>1, <3>3, <3>4, <3>5 DEF Decided
  <2> QED BY <2>1, <2>2
<1>4. Answered(t)'
  BY <1>2 DEF Answered, IsLookup
<1>5. KindOK(t)' /\ ~Looking(t)'
  BY DEF KindOK, Resolving, Looking
<1> QED BY <1>3, <1>4, <1>5 DEF LInvOf

\* The tiers, one after the other.
LEMMA LookupStep ==
    ASSUME LInv, NEW t \in Thread, Looking(t), Lookups(t), seen'[t] = Watched(t)
    PROVE  LInvOf(t)'
PROOF
<1> DEFINE n == Len(creds[t].shared)
           c == call[t]
           cr == creds[t]
<1>1. /\ SoFar(t) /\ IsLookup(c) /\ n \in Nat
      /\ c.kind \in {"secret", "require"} /\ cr.shared \in Seq(Segment)
  BY DEF LInv, LInvOf, WInv, Looking, CredsOK, Resolving, IsLookup
<1>2. /\ call' = call /\ creds' = creds
      /\ pc' = [pc EXCEPT ![t] = pc'[t]]
      /\ pc = [u \in Thread |-> pc[u]] /\ outcome = [u \in Thread |-> outcome[u]]
      /\ shared = [u \in Thread |-> shared[u]]
  BY DEF LInv, WInv, WTypeOK, Lookups, Override, FromEnv, CheckSet, Bind, Claim, Probe,
         ProbeFails, Told, Shared, OwnRead, OwnWrite, Stays, Ends, Goto
<1>3. Current(t) /\ \A i \in 1 .. n : StoreTier(cr, cr.shared[i], None, c.name) \in seen[t][i + 2]
  BY <1>1 DEF SoFar, Current
<1>4. ASSUME pc'[t] # "idle"
      PROVE  /\ Current(t)'
             /\ \A i \in 1 .. n + 3 : seen[t][i] \subseteq seen'[t][i]
  BY <1>2, <1>4, Advances
<1>5. ASSUME pc'[t] \in {"env", "bind", "claim", "probe", "tier"}, SoFar(t)'
      PROVE  LInvOf(t)'
  <2>1. KindOK(t)'
    BY <1>1, <1>2, <1>5 DEF KindOK, Resolving, IsLookup
  <2> QED BY <1>5, <2>1 DEF LInvOf, Decided, Answered
<1>6. CASE Override(t)
  <2> DEFINE o == c.override
  <2>1. CASE o = NotStr
    <3>1. PICK r : r = Fails("type")
      OBVIOUS
    <3>2. "fault" \in seen[t][1]
      BY <1>1, <2>1 DEF SoFar, Current, Clean
    <3>3. r # Unset /\ r # Fails("unset") /\ r.kind # "value"
      BY <3>1 DEF Fails, Unset
    <3>4. /\ pc'[t] = "return"
          /\ outcome'[t] = IF r = Unset /\ call[t].kind = "require" THEN Fails("unset") ELSE r
      BY <1>2, <1>6, <2>1, <3>1 DEF Override, Ends, Goto
    <3> QED BY <1>1, <1>2, <3>2, <3>3, <3>4, LookupEnds
  <2>2. CASE o # NotStr /\ o # None /\ Stripped[o] # None
    <3>1. PICK r : r = [kind |-> "value", value |-> Stripped[o]]
      OBVIOUS
    <3>2. Stripped[o] \in seen[t][1]
      BY <1>1, <2>2 DEF SoFar, Current, Clean, env_value
    <3>3. r # Unset /\ r # Fails("unset") /\ r.kind = "value" /\ r.value = Stripped[o]
      BY <2>2, <3>1 DEF Fails, Unset
    <3>4. /\ pc'[t] = "return"
          /\ outcome'[t] = IF r = Unset /\ call[t].kind = "require" THEN Fails("unset") ELSE r
      BY <1>2, <1>6, <2>2, <3>1 DEF Override, Ends, Goto
    <3> QED BY <1>1, <1>2, <3>2, <3>3, <3>4, LookupEnds
  <2>3. CASE o # NotStr /\ ~(o # None /\ Stripped[o] # None)
    <3>1. pc'[t] = "env"
      BY <1>2, <1>6, <2>3 DEF Override, Goto
    <3>2. None \in seen[t][1]
      BY <1>1, <2>3 DEF SoFar, Current, Clean, env_value
    <3>3. SoFar(t)'
      BY <1>1, <1>4, <3>1, <3>2 DEF SoFar
    <3> QED BY <1>5, <3>1, <3>3
  <2> QED BY <2>1, <2>2, <2>3
<1>7. CASE FromEnv(t)
  <2>1. PICK v : v = env_value(env[ProcOf[t]].secrets[c.name])
    OBVIOUS
  <2>2. v \in seen[t][2] /\ None \in seen[t][1]
    BY <1>1, <1>7, <2>1 DEF SoFar, Current, FromEnv
  <2>3. CASE v # None
    <3>1. PICK r : r = [kind |-> "value", value |-> v]
      OBVIOUS
    <3>2. r # Unset /\ r # Fails("unset") /\ r.kind = "value" /\ r.value = v
      BY <2>3, <3>1 DEF Fails, Unset
    <3>3. /\ pc'[t] = "return"
          /\ outcome'[t] = IF r = Unset /\ call[t].kind = "require" THEN Fails("unset") ELSE r
      BY <1>2, <1>7, <2>1, <2>3, <3>1 DEF FromEnv, Ends, Goto
    <3>4. /\ 2 \in 1 .. n + 3 /\ \A j \in 1 .. 2 - 1 : None \in seen[t][j]
      BY <1>1, <2>2
    <3> QED BY <1>1, <1>2, <2>2, <3>2, <3>3, <3>4, LookupEnds
  <2>4. CASE v = None
    <3>1. pc'[t] = "bind"
      BY <1>2, <1>7, <2>1, <2>4 DEF FromEnv, Goto
    <3>2. SoFar(t)'
      BY <1>1, <1>4, <2>2, <2>4, <3>1 DEF SoFar
    <3> QED BY <1>5, <3>1, <3>2
  <2> QED BY <2>3, <2>4
<1>8. CASE CheckSet(t)
  BY <1>8 DEF CheckSet, Looking
<1>9. CASE Bind(t)
  <2>1. None \in seen[t][1] /\ None \in seen[t][2]
    BY <1>1, <1>9 DEF SoFar, Bind
  <2>2. CASE Bound(cr)
    <3>1. pc'[t] = "claim" /\ shared'[t] = cr.shared
      BY <1>1, <1>2, <1>9, <2>2 DEF Bind, Goto
    <3>2. Done(t)' = 0 /\ Bound(creds'[t])
      BY <1>1, <1>2, <2>2, <3>1 DEF Done
    <3>3. SoFar(t)'
      BY <1>1, <1>2, <1>4, <2>1, <3>1, <3>2 DEF SoFar
    <3> QED BY <1>5, <3>1, <3>3
  <2>3. CASE ~Bound(cr)
    <3>1. PICK r : r = Fails("name")
      OBVIOUS
    <3>2. r # Unset /\ r # Fails("unset") /\ r.kind # "value"
      BY <3>1 DEF Fails, Unset
    <3>3. /\ pc'[t] = "return"
          /\ outcome'[t] = IF r = Unset /\ call[t].kind = "require" THEN Fails("unset") ELSE r
      BY <1>2, <1>9, <2>3, <3>1 DEF Bind, Ends, Goto
    <3>4. "fault" \in seen[t][3]
      <4>1. CASE n = 0
        BY <1>1, <2>3, <4>1 DEF SoFar, Current, StoreTier
      <4>2. CASE n # 0
        <5>1. StoreTier(cr, cr.shared[1], None, c.name) \in seen[t][1 + 2]
          BY <1>1, <1>3, <4>2
        <5>2. StoreTier(cr, cr.shared[1], None, c.name) = "fault"
          BY <2>3 DEF StoreTier
        <5> QED BY <5>1, <5>2
      <4> QED BY <4>1, <4>2
    <3>5. 3 \in 1 .. n + 3 /\ \A j \in 1 .. 3 - 1 : None \in seen[t][j]
      BY <1>1, <2>1
    <3> QED BY <1>1, <1>2, <3>2, <3>3, <3>4, <3>5, LookupEnds
  <2> QED BY <2>2, <2>3
<1>10. CASE Claim(t) \/ Probe(t) \/ ProbeFails(t)
  <2>1. pc[t] \in {"claim", "probe"} /\ pc'[t] \in {"probe", "tier"} /\ shared' = shared
    BY <1>2, <1>10 DEF Claim, Probe, ProbeFails, Told, Goto
  <2>2. /\ Bound(cr) /\ None \in seen[t][1] /\ None \in seen[t][2]
        /\ shared[t] \in Seq(Segment) /\ Len(shared[t]) <= n
        /\ \A i \in 1 .. Len(shared[t]) : shared[t][i] = cr.shared[Done(t) + i]
        /\ \A j \in 1 .. Done(t) : None \in seen[t][j + 2]
    BY <1>1, <1>10 DEF SoFar, Claim, Probe, ProbeFails, Told
  <2>3. Done(t)' = Done(t) /\ Done(t) \in 0 .. n
    BY <1>1, <1>2, <2>1, <2>2 DEF Done
  <2>4. /\ Current(t)' /\ \A i \in 1 .. n + 3 : seen[t][i] \subseteq seen'[t][i]
    BY <1>4, <2>1
  <2>5. /\ None \in seen'[t][1] /\ None \in seen'[t][2]
        /\ \A j \in 1 .. Done(t) : None \in seen'[t][j + 2]
    <3>1. 1 \in 1 .. n + 3 /\ 2 \in 1 .. n + 3 /\ \A j \in 1 .. Done(t) : j + 2 \in 1 .. n + 3
      BY <1>1, <2>3
    <3> QED BY <2>2, <2>4, <3>1
  <2>6. SoFar(t)'
    BY <1>2, <2>1, <2>2, <2>3, <2>4, <2>5 DEF SoFar
  <2> QED BY <1>5, <2>1, <2>6
<1>11. CASE pc[t] = "tier"
  <2> DEFINE d == Done(t)
  <2>1. /\ Bound(cr) /\ d \in 0 .. n /\ Len(shared[t]) = n - d /\ shared[t] \in Seq(Segment)
        /\ \A i \in 1 .. Len(shared[t]) : shared[t][i] = cr.shared[d + i]
        /\ None \in seen[t][1] /\ None \in seen[t][2]
        /\ \A j \in 1 .. d : None \in seen[t][j + 2]
    <3>1. /\ Bound(cr) /\ shared[t] \in Seq(Segment) /\ Len(shared[t]) <= n
          /\ \A i \in 1 .. Len(shared[t]) : shared[t][i] = cr.shared[Done(t) + i]
          /\ None \in seen[t][1] /\ None \in seen[t][2]
          /\ \A j \in 1 .. Done(t) : None \in seen[t][j + 2]
      BY <1>1, <1>11 DEF SoFar
    <3>2. Len(shared[t]) \in Nat /\ d = n - Len(shared[t])
      BY <3>1 DEF Done
    <3>3. Len(shared[t]) <= n
      BY <3>1
    <3>4. d \in 0 .. n /\ Len(shared[t]) = n - d
      <4>1. PICK k, l : k = n /\ l = Len(shared[t])
        OBVIOUS
      <4>2. k \in Nat /\ l \in Nat /\ l <= k /\ d = k - l
        BY <1>1, <3>2, <3>3, <4>1
      <4>3. k - l \in 0 .. k /\ l = k - (k - l)
        BY <4>2
      <4> QED BY <4>1, <4>2, <4>3
    <3> QED BY <3>1, <3>4
  <2>2. \A j \in 1 .. d + 2 : None \in seen[t][j]
    <3> TAKE j \in 1 .. d + 2
    <3>1. CASE j \in {1, 2} BY <2>1, <3>1
    <3>2. CASE j - 2 \in 1 .. d
      <4>1. None \in seen[t][(j - 2) + 2] BY <2>1, <3>2
      <4> QED BY <2>1, <4>1
    <3> QED BY <2>1, <3>1, <3>2
  <2>3. CASE Shared(t)
    <3> DEFINE a == Head(shared[t])
    <3>1. shared[t] # <<>> /\ shared' = [shared EXCEPT ![t] = Tail(@)]
      BY <2>3 DEF Shared
    <3>2. d < n /\ d + 1 \in 1 .. n /\ a = cr.shared[d + 1]
      BY <1>1, <2>1, <3>1
    <3>3. StoreTier(cr, a, None, c.name) \in seen[t][d + 3]
      <4>1. StoreTier(cr, cr.shared[d + 1], None, c.name) \in seen[t][(d + 1) + 2]
        BY <1>3, <3>2
      <4> QED BY <2>1, <3>2, <4>1
    <3>4. d + 3 \in 1 .. n + 3 /\ \A j \in 1 .. (d + 3) - 1 : None \in seen[t][j]
      BY <1>1, <2>1, <2>2, <3>2
    <3>5. PICK r : r = BackendGet(a, None, c.name)
      OBVIOUS
    <3>6. CASE r = Unset
      <4>1. pc'[t] = "tier" /\ shared'[t] = Tail(shared[t])
        BY <1>2, <1>11, <2>3, <3>1, <3>5, <3>6 DEF Shared
      <4>2. None \in seen[t][d + 3]
        BY <2>1, <3>3, <3>5, <3>6 DEF BackendGet, StoreTier, Unset, Fails
      <4>3. /\ Done(t)' = d + 1 /\ shared'[t] \in Seq(Segment)
            /\ Len(shared'[t]) = n - (d + 1)
        BY <1>1, <1>2, <2>1, <3>1, <3>2, <4>1 DEF Done
      <4>4. \A i \in 1 .. Len(shared'[t]) : shared'[t][i] = cr.shared[(d + 1) + i]
        <5> TAKE i \in 1 .. Len(shared'[t])
        <5>1. shared'[t][i] = shared[t][i + 1] /\ i + 1 \in 1 .. Len(shared[t])
          BY <1>1, <2>1, <3>1, <3>2, <4>1, <4>3
        <5>2. shared[t][i + 1] = cr.shared[d + (i + 1)]
          BY <2>1, <5>1
        <5>3. i \in Nat /\ d \in Nat /\ d + (i + 1) = (d + 1) + i
          BY <1>1, <2>1, <4>3
        <5> QED BY <5>1, <5>2, <5>3
      <4>5. \A j \in 1 .. d + 1 : None \in seen'[t][j + 2]
        <5>1. Current(t)' /\ \A i \in 1 .. n + 3 : seen[t][i] \subseteq seen'[t][i]
          BY <1>4, <4>1
        <5> TAKE j \in 1 .. d + 1
        <5>2. None \in seen[t][j + 2] /\ j + 2 \in 1 .. n + 3
          BY <1>1, <2>1, <3>2, <4>2
        <5> QED BY <5>1, <5>2
      <4>6. /\ Current(t)' /\ None \in seen'[t][1] /\ None \in seen'[t][2]
        <5>1. Current(t)' /\ \A i \in 1 .. n + 3 : seen[t][i] \subseteq seen'[t][i]
          BY <1>4, <4>1
        <5>2. 1 \in 1 .. n + 3 /\ 2 \in 1 .. n + 3
          BY <1>1
        <5> QED BY <2>1, <5>1, <5>2
      <4>7. SoFar(t)'
        BY <1>1, <1>2, <2>1, <3>2, <4>1, <4>3, <4>4, <4>5, <4>6 DEF SoFar
      <4> QED BY <1>5, <4>1, <4>7
    <3>7. CASE r # Unset
      <4>1. /\ pc'[t] = "return"
            /\ outcome'[t] = IF r = Unset /\ call[t].kind = "require" THEN Fails("unset") ELSE r
        BY <1>2, <2>3, <3>5, <3>7 DEF Shared, Ends, Goto
      <4>2. /\ r # Fails("unset")
            /\ IF r.kind = "value" THEN r.value \in seen[t][d + 3] ELSE "fault" \in seen[t][d + 3]
        BY <2>1, <3>3, <3>5, <3>7 DEF BackendGet, StoreTier, Unset, Fails
      <4> QED BY <1>1, <1>2, <3>4, <3>7, <4>1, <4>2, LookupEnds
    <3> QED BY <3>6, <3>7
  <2>4. CASE OwnRead(t)
    <3>1. d = n /\ StoreTier(cr, cr.app, cr.ns, c.name) \in seen[t][n + 3]
      BY <1>1, <2>1, <2>4 DEF OwnRead, SoFar, Current
    <3>2. PICK r : r = BackendGet(cr.app, cr.ns, c.name)
      OBVIOUS
    <3>3. /\ pc'[t] = "return"
          /\ outcome'[t] = IF r = Unset /\ call[t].kind = "require" THEN Fails("unset") ELSE r
      BY <1>1, <1>2, <2>4, <3>2 DEF OwnRead, Ends, Goto
    <3>4. n + 3 \in 1 .. n + 3 /\ \A j \in 1 .. (n + 3) - 1 : None \in seen[t][j]
      BY <1>1, <2>2, <3>1
    <3>5. CASE r = Unset
      <4>1. None \in seen[t][n + 3]
        BY <2>1, <3>1, <3>2, <3>5 DEF BackendGet, StoreTier, Unset, Fails
      <4>2. \A j \in 1 .. n + 3 : None \in seen[t][j]
        BY <1>1, <3>4, <4>1
      <4> QED BY <1>1, <1>2, <3>3, <3>5, <4>2, LookupEnds
    <3>6. CASE r # Unset
      <4>1. /\ r # Fails("unset")
            /\ IF r.kind = "value" THEN r.value \in seen[t][n + 3] ELSE "fault" \in seen[t][n + 3]
        BY <2>1, <3>1, <3>2, <3>6 DEF BackendGet, StoreTier, Unset, Fails
      <4> QED BY <1>1, <1>2, <3>3, <3>4, <3>6, <4>1, LookupEnds
    <3> QED BY <3>5, <3>6
  <2>5. ~OwnWrite(t)
    BY <1>1 DEF OwnWrite
  <2> QED BY <1>11, <2>3, <2>4, <2>5
      DEF Lookups, Override, FromEnv, CheckSet, Bind, Claim, Probe, ProbeFails, Told
<1> QED BY <1>6, <1>7, <1>8, <1>9, <1>10, <1>11 DEF Lookups, Shared, OwnRead, OwnWrite

\* The facade's steps for a call that is no lookup.
LEMMA OtherCallStep ==
    ASSUME LInv, NEW t \in Thread, ~Looking(t), Lookups(t)
    PROVE  LInvOf(t)'
PROOF
<1>1. /\ call'[t] = call[t] /\ pc = [u \in Thread |-> pc[u]]
      /\ pc[t] \in {"override", "env", "check", "bind", "claim", "probe", "tier"}
      /\ pc'[t] \in {"env", "bind", "claim", "probe", "tier", "return"}
      /\ pc'[t] = "env" => pc[t] = "override"
  BY DEF LInv, WInv, WTypeOK, Lookups, Override, FromEnv, CheckSet, Bind, Claim, Probe,
         ProbeFails, Told, Shared, OwnRead, OwnWrite, Stays, Ends, Goto
<1>2. KindOK(t) /\ ~IsLookup(call[t]) /\ pc'[t] # "env"
  BY <1>1 DEF LInv, LInvOf, KindOK, Looking
<1>3. KindOK(t)'
  BY <1>1, <1>2 DEF KindOK, Resolving
<1>4. t \in Git \cup Cli => call[t].kind \notin {"git_get", "cli_get"}
  BY <1>1, <1>2 DEF KindOK, Resolving
<1> QED BY <1>1, <1>2, <1>3, <1>4 DEF LInvOf, Looking, Decided, Answered

\* A lookup starts with an up-to-date history.
LEMMA LookupStarts ==
    ASSUME NEW t \in Thread, pc[t] # "return", seen'[t] = Watched(t), IsLookup(call'[t]),
           pc'[t] = "override", creds'[t].shared \in Seq(Segment)
    PROVE  SoFar(t)'
PROOF
<1>1. Current(t)'
  BY HistoryGrows
<1> QED BY <1>1 DEF SoFar

\* The other steps of a library caller.
LEMMA CallerStep ==
    ASSUME LInv, NEW t \in Thread \ (Git \cup Cli), seen'[t] = Watched(t),
           Construct(t) \/ Call(t) \/ Return(t)
    PROVE  LInvOf(t)'
PROOF
<1>0. /\ pc = [u \in Thread |-> pc[u]] /\ call = [u \in Thread |-> call[u]]
      /\ creds = [u \in Thread |-> creds[u]]
  BY DEF LInv, WInv, WTypeOK
<1>1. CASE Construct(t) \/ Return(t)
  <2>1. pc'[t] = "idle"
    BY <1>0, <1>1 DEF Construct, Return, Goto
  <2> QED BY <2>1 DEF LInvOf, KindOK, Resolving, Looking, Decided, Answered
<1>2. CASE Call(t)
  <2>1. PICK r \in Requests[t] : call'[t] = r /\ pc'[t] = FirstStep(r)
    BY <1>0, <1>2 DEF Call, Goto
  <2>2. /\ pc[t] = "idle" /\ creds'[t] = creds[t] /\ creds[t].shared \in Seq(Segment)
    BY <1>2 DEF Call, LInv, WInv, CredsOK
  <2>3. IsLookup(r) <=> r.kind \in {"secret", "require"}
    BY ResolveAssumption DEF IsLookup
  <2>4. /\ pc'[t] \in {"override", "check", "bind"}
        /\ pc'[t] = "override" <=> IsLookup(r)
    BY <2>1, <2>3 DEF FirstStep
  <2>5. ASSUME Looking(t)' PROVE SoFar(t)'
    BY <2>1, <2>2, <2>4, <2>5, LookupStarts DEF Looking
  <2>6. KindOK(t)'
    BY <2>1, <2>4 DEF KindOK, Resolving
  <2> QED BY <2>4, <2>5, <2>6 DEF LInvOf, Decided, Answered
<1> QED BY <1>1, <1>2

\* What a program's run leaves when it prints nothing.
LEMMA SilentStep ==
    ASSUME NEW t, pc'[t] = "return", outcome'[t] = Nothing
    PROVE  LInvOf(t)'
  BY DEF LInvOf, KindOK, Resolving, Looking, Decided, Answered, Nothing

\* A program's Credentials takes over.
LEMMA DelegateStep ==
    ASSUME LInv, NEW t \in Git \cup Cli, seen'[t] = Watched(t), pc[t] = "idle",
           NEW r, r # None, r.kind \in {"secret", "require", "set", "unset", "names"},
           call'[t] = r, pc'[t] = FirstStep(r), creds'[t].shared \in Seq(Segment)
    PROVE  LInvOf(t)'
PROOF
<1>1. IsLookup(r) <=> r.kind \in {"secret", "require"}
  BY DEF IsLookup
<1>2. /\ pc'[t] \in {"override", "check", "bind"}
      /\ pc'[t] = "override" <=> IsLookup(r)
  BY <1>1 DEF FirstStep
<1>3. ASSUME Looking(t)' PROVE SoFar(t)'
  BY <1>2, <1>3, LookupStarts, FrontendAssumption DEF Looking
<1>4. KindOK(t)'
  BY <1>2 DEF KindOK, Resolving
<1> QED BY <1>2, <1>3, <1>4 DEF LInvOf, Decided, Answered

\* A plain get begins to watch its store.
LEMMA PlainStarts ==
    ASSUME NEW t \in Git \cup Cli, seen'[t] = Watched(t), pc[t] \in {"idle", "git_names"},
           pc'[t] \in {"git_names", "git_get", "cli_get"}, call'[t] \in GitGets \cup CliGets
    PROVE  /\ seen'[t] = [i \in 1 .. 1 |-> seen'[t][i]]
           /\ stores'[call'[t].app] \in seen'[t][1]
PROOF
<1>1. ~IsLookup(call'[t]) /\ call'[t] # None /\ call'[t].kind \in {"git_get", "cli_get"}
  BY FrontendAssumption DEF IsLookup, GitGets, CliGets
<1>2. PICK now : now = Sources(t)'
  OBVIOUS
<1>3. now = <<stores'[call'[t].app]>>
  BY <1>1, <1>2 DEF Sources
<1>4. seen'[t] = [i \in DOMAIN now |-> {now[i]} \cup (IF i \in DOMAIN seen[t] THEN seen[t][i] ELSE {})]
  BY <1>2 DEF Watched
<1>5. DOMAIN now = 1 .. 1 /\ now[1] = stores'[call'[t].app]
  BY <1>3
<1> QED BY <1>4, <1>5

\* The steps of the two programs.
LEMMA ProgramStep ==
    ASSUME LInv, NEW t \in Git \cup Cli, seen'[t] = Watched(t),
           \/ GitStartGet(t) \/ GitNames(t) \/ GitGet(t) \/ GitStartWrite(t)
           \/ CliStart(t) \/ CliGet(t) \/ Interrupted(t) \/ Exits(t)
    PROVE  LInvOf(t)'
PROOF
<1>0. /\ pc = [u \in Thread |-> pc[u]] /\ call = [u \in Thread |-> call[u]]
      /\ creds = [u \in Thread |-> creds[u]] /\ outcome = [u \in Thread |-> outcome[u]]
      /\ t \in Thread /\ LInvOf(t)
  BY FrontendAssumption DEF LInv, WInv, WTypeOK
<1>1. CASE GitStartGet(t)
  <2>1. pc[t] = "idle"
    BY <1>1 DEF GitStartGet, Begins
  <2>2. PICK r \in GitRequests :
          /\ r.kind = "git_get"
          /\ IF r.protocol \notin _TLS_PROTOCOLS \/ r.host = None
             THEN Declines(t, [r EXCEPT !.host = None])
             ELSE Reads(t, IF r.name = None THEN "git_names" ELSE "git_get",
                        GitRead(r))
    BY <1>1 DEF GitStartGet
  <2>3. CASE r.protocol \notin _TLS_PROTOCOLS \/ r.host = None
    BY <1>0, <2>2, <2>3, SilentStep DEF Declines, Goto
  <2>4. CASE ~(r.protocol \notin _TLS_PROTOCOLS \/ r.host = None)
    <3>1. PICK g : g = GitRead(r)
      OBVIOUS
    <3>2. /\ call'[t] = g /\ pc'[t] = IF r.name = None THEN "git_names" ELSE "git_get"
      BY <1>0, <2>2, <2>4, <3>1 DEF Reads, Goto
    <3>3. _host_to_segment(r.host) \in App /\ r.name \in Name \cup {None}
      BY <2>2, <2>4, FrontendAssumption DEF _host_to_segment
    <3>4. g \in GitGets /\ g.protocol \in _TLS_PROTOCOLS
      BY <2>2, <2>4, <3>1, <3>3 DEF GitGets, GitRead
    <3>5. /\ seen'[t] = [i \in 1 .. 1 |-> seen'[t][i]]
          /\ stores'[call'[t].app] \in seen'[t][1]
      BY <2>1, <3>2, <3>4, PlainStarts
    <3>6. Plain(t)'
      <4>1. CASE r.name = None
        BY <3>2, <3>5, <4>1 DEF Plain
      <4>2. CASE r.name # None
        <5>1. ~g.sole
          BY <3>1, <4>2 DEF GitRead
        <5> QED BY <3>2, <3>5, <5>1 DEF Plain
      <4> QED BY <4>1, <4>2
    <3> QED BY <3>2, <3>4, <3>6
            DEF LInvOf, KindOK, Resolving, Looking, Decided, Answered
  <2> QED BY <2>3, <2>4
<1>2. CASE GitNames(t)
  <2> DEFINE c == stores[call[t].app]
  <2>1. call[t] \in GitGets /\ call[t].protocol \in _TLS_PROTOCOLS /\ pc[t] = "git_names"
    BY <1>0, <1>2 DEF LInvOf, KindOK, GitNames
  <2>2. CASE Loads(c, None) /\ \E n \in Name : NamesOf(Loaded(c), None) = {n}
    <3>1. PICK n \in NamesOf(Loaded(c), None) :
            call' = [call EXCEPT ![t] = [@ EXCEPT !.name = n]]
      BY <1>2, <2>2 DEF GitNames
    <3>2. NamesOf(Loaded(c), None) = {n} /\ n \in Name
      BY <2>2
    <3>3. /\ call'[t] = [call[t] EXCEPT !.name = n] /\ pc'[t] = "git_get" /\ stores' = stores
      BY <1>0, <1>2, <2>2, <3>1 DEF GitNames, Goto, Rest
    <3>4. /\ call'[t] \in GitGets /\ call'[t].app = call[t].app /\ call'[t].name = n
          /\ call'[t].protocol \in _TLS_PROTOCOLS
      BY <2>1, <3>2, <3>3 DEF GitGets
    <3>5. /\ seen'[t] = [i \in 1 .. 1 |-> seen'[t][i]]
          /\ stores'[call'[t].app] \in seen'[t][1]
      BY <2>1, <3>3, <3>4, PlainStarts
    <3>6. \E d \in seen'[t][1] : Loads(d, None) /\ NamesOf(Loaded(d), None) = {call'[t].name}
      BY <2>2, <3>2, <3>3, <3>4, <3>5
    <3>7. Plain(t)'
      BY <3>5, <3>6 DEF Plain
    <3> QED BY <3>3, <3>4, <3>7 DEF LInvOf, KindOK, Resolving, Looking, Decided, Answered
  <2>3. CASE ~(Loads(c, None) /\ \E n \in Name : NamesOf(Loaded(c), None) = {n})
    <3>1. pc'[t] = "return" /\ outcome'[t] = Nothing
      BY <1>0, <1>2, <2>3 DEF GitNames, Prints, Ends, Goto, Nothing, Unset
    <3> QED BY <3>1, SilentStep
  <2> QED BY <2>2, <2>3
<1>3. CASE GitGet(t)
  <2> DEFINE c == stores[call[t].app]
  <2>1. /\ call[t] \in GitGets /\ pc[t] = "git_get" /\ Plain(t) /\ call'[t] = call[t]
        /\ call[t].protocol \in {"https", "ftps"}
    BY <1>0, <1>3 DEF LInvOf, KindOK, GitGet, Prints, _TLS_PROTOCOLS
  <2>2. PICK r : r = BackendGet(call[t].app, None, call[t].name)
    OBVIOUS
  <2>3. /\ pc'[t] = "return"
        /\ outcome'[t] = IF r.kind = "error" \/ r = Unset THEN Nothing
                         ELSE IF {call[t].name, r.value} \cap Unwritable # {} THEN Nothing
                         ELSE [kind |-> "reply", name |-> call[t].name, value |-> r.value]
    BY <1>0, <1>3, <2>2 DEF GitGet, StoreGet, Prints, Ends, Goto, Nothing, Unset
  <2>4. CASE outcome'[t] = Nothing
    BY <2>3, <2>4, SilentStep
  <2>5. CASE outcome'[t] # Nothing
    <3>1. /\ outcome'[t].value = r.value /\ r.kind # "error"
          /\ {call[t].name, outcome'[t].value} \cap Unwritable = {}
      BY <2>3, <2>5
    <3>2. Loads(c, None) /\ Lookup(Loaded(c), None, call[t].name) = outcome'[t].value
      BY <2>2, <3>1 DEF BackendGet
    <3>3. seen'[t] = seen[t] /\ ~IsLookup(call[t]) /\ call[t].kind = "git_get"
      BY <2>1, <2>3 DEF Watched, IsLookup, GitGets
    <3>4. Len(seen[t]) = 1
      BY <2>1, HistoryLength DEF Plain
    <3>5. Answered(t)'
      BY <2>1, <3>1, <3>2, <3>3, <3>4 DEF Answered, Plain
    <3> QED BY <2>1, <2>3, <3>3, <3>5 DEF LInvOf, KindOK, Resolving, Looking, Decided
  <2> QED BY <2>4, <2>5
<1>4. CASE GitStartWrite(t)
  <2>1. PICK r \in GitRequests :
          /\ r.kind \in {"set", "unset"}
          /\ \/ Declines(t, r)
             \/ Delegates(t, Credentials(_host_to_segment(r.host), None, <<>>), r)
    BY <1>4 DEF GitStartWrite
  <2>2. CASE Declines(t, r)
    BY <1>0, <2>2, SilentStep DEF Declines, Goto
  <2>3. CASE Delegates(t, Credentials(_host_to_segment(r.host), None, <<>>), r)
    <3>1. PICK cr : cr = Credentials(_host_to_segment(r.host), None, <<>>)
      OBVIOUS
    <3>2. cr.shared \in Seq(Segment) /\ r # None /\ pc[t] = "idle"
      BY <1>4, <3>1, FrontendAssumption DEF Credentials, GitStartWrite, Begins
    <3>3. call'[t] = r /\ pc'[t] = FirstStep(r) /\ creds'[t] = cr
      BY <1>0, <2>3, <3>1 DEF Delegates, Goto
    <3> QED BY <2>1, <3>2, <3>3, DelegateStep
  <2> QED BY <2>1, <2>2, <2>3
<1>5. CASE CliStart(t)
  <2>0. pc[t] = "idle"
    BY <1>5 DEF CliStart, Begins
  <2>a. PICK r \in CliRequests : \E ns :
          \/ Declines(t, r)
          \/ /\ r.kind = "cli_get" /\ Bound(Credentials(r.app, ns, <<>>))
             /\ Reads(t, "cli_get", [r EXCEPT !.ns = ns])
          \/ r.kind # "cli_get" /\ Delegates(t, Credentials(r.app, ns, <<>>), r)
    BY <1>5 DEF CliStart
  <2>1. PICK ns :
          \/ Declines(t, r)
          \/ /\ r.kind = "cli_get" /\ Bound(Credentials(r.app, ns, <<>>))
             /\ Reads(t, "cli_get", [r EXCEPT !.ns = ns])
          \/ r.kind # "cli_get" /\ Delegates(t, Credentials(r.app, ns, <<>>), r)
    BY <2>a
  <2>2. CASE Declines(t, r)
    BY <1>0, <2>2, SilentStep DEF Declines, Goto
  <2>3. CASE /\ r.kind = "cli_get" /\ Bound(Credentials(r.app, ns, <<>>))
             /\ Reads(t, "cli_get", [r EXCEPT !.ns = ns])
    <3>1. PICK g : g = [r EXCEPT !.ns = ns]
      OBVIOUS
    <3>2. call'[t] = g /\ pc'[t] = "cli_get"
      BY <1>0, <2>3, <3>1 DEF Reads, Goto
    <3>3. r.app \in App /\ ns \in Scope
      BY <2>3 DEF Bound, Credentials
    <3>4. r \in [kind : {"cli_get"}, app : Segment, ns : Namespace \cup {BadSegment, None}, name : Name]
      BY <2>3, FrontendAssumption
    <3>5. g \in CliGets
      BY <3>1, <3>3, <3>4 DEF CliGets
    <3>6. /\ seen'[t] = [i \in 1 .. 1 |-> seen'[t][i]]
          /\ stores'[call'[t].app] \in seen'[t][1]
      BY <2>0, <3>2, <3>5, PlainStarts
    <3>7. Plain(t)'
      BY <3>2, <3>6 DEF Plain
    <3> QED BY <3>2, <3>5, <3>7
            DEF LInvOf, KindOK, Resolving, Looking, Decided, Answered
  <2>4. CASE r.kind # "cli_get" /\ Delegates(t, Credentials(r.app, ns, <<>>), r)
    <3>1. PICK cr : cr = Credentials(r.app, ns, <<>>)
      OBVIOUS
    <3>2. /\ cr.shared \in Seq(Segment) /\ r # None
          /\ r.kind \in {"secret", "require", "set", "unset", "names"}
      BY <2>4, <3>1, FrontendAssumption DEF Credentials
    <3>3. call'[t] = r /\ pc'[t] = FirstStep(r) /\ creds'[t] = cr
      BY <1>0, <2>4, <3>1 DEF Delegates, Goto
    <3> QED BY <2>0, <3>2, <3>3, DelegateStep
  <2> QED BY <2>1, <2>2, <2>3, <2>4
<1>6. CASE CliGet(t)
  <2> DEFINE c == stores[call[t].app]
             ns == call[t].ns
  <2>1. /\ call[t] \in CliGets /\ pc[t] = "cli_get" /\ Plain(t) /\ call'[t] = call[t]
    BY <1>0, <1>6 DEF LInvOf, KindOK, CliGet, Prints
  <2>2. PICK r : r = BackendGet(call[t].app, ns, call[t].name)
    OBVIOUS
  <2>3. /\ call[t].kind = "cli_get" /\ pc'[t] = "return" /\ outcome'[t] = r
    BY <1>0, <1>6, <2>1, <2>2 DEF CliGet, Prints, Ends, Goto, CliGets
  <2>4. seen'[t] = seen[t] /\ ~IsLookup(call[t])
    BY <2>1, <2>3 DEF Watched, IsLookup
  <2>5. Len(seen[t]) = 1
    BY <2>1, HistoryLength DEF Plain
  <2>6. r.kind \in {"reply", "value"} => Loads(c, ns) /\ Lookup(Loaded(c), ns, call[t].name) = r.value
    BY <2>2 DEF BackendGet
  <2>7. Answered(t)'
    BY <2>1, <2>3, <2>4, <2>5, <2>6 DEF Answered, Plain
  <2> QED BY <2>1, <2>3, <2>4, <2>7 DEF LInvOf, KindOK, Resolving, Looking, Decided
<1>7. CASE Interrupted(t)
  BY <1>0, <1>7, SilentStep DEF Interrupted, Goto
<1>8. CASE Exits(t)
  <2>1. pc'[t] = "idle"
    BY <1>0, <1>8 DEF Exits, Goto
  <2> QED BY <2>1 DEF LInvOf, KindOK, Resolving, Looking, Decided, Answered
<1> QED BY <1>1, <1>2, <1>3, <1>4, <1>5, <1>6, <1>7, <1>8

\* A step of one thread leaves the others where they were.
LEMMA OneThread ==
    ASSUME LInv, NEW t \in Thread,
           \/ Facade(t) \/ Program(t)
           \/ GitStartGet(t) \/ GitNames(t) \/ GitGet(t) \/ GitStartWrite(t)
           \/ CliStart(t) \/ CliGet(t)
    PROVE  /\ call' = [u \in Thread |-> call'[u]] /\ shared' = [u \in Thread |-> shared'[u]]
           /\ \A u \in Thread : u # t =>
                /\ pc'[u] = pc[u] /\ call'[u] = call[u] /\ creds'[u] = creds[u]
                /\ shared'[u] = shared[u] /\ outcome'[u] = outcome[u]
PROOF
<1> USE DEF LInv, WInv, WTypeOK, Goto, Ends, Stays, Rest, Begins
<1>1. CASE Construct(t) \/ Call(t) \/ Return(t)
  BY <1>1 DEF Construct, Call, Return
<1>2. CASE Override(t) \/ FromEnv(t) \/ CheckSet(t) \/ Bind(t) \/ Claim(t)
  BY <1>2 DEF Override, FromEnv, CheckSet, Bind, Claim
<1>3. CASE Probe(t) \/ ProbeFails(t) \/ Shared(t) \/ OwnRead(t) \/ OwnWrite(t)
  BY <1>3 DEF Probe, ProbeFails, Told, Shared, OwnRead, OwnWrite
<1>4. CASE GitStartGet(t) \/ GitNames(t) \/ GitGet(t) \/ GitStartWrite(t)
  BY <1>4 DEF GitStartGet, GitNames, GitGet, GitStartWrite, Declines, Reads, Prints, Delegates
<1>5. CASE CliStart(t) \/ CliGet(t) \/ Interrupted(t) \/ Exits(t)
  BY <1>5 DEF CliStart, CliGet, Interrupted, Exits, Declines, Reads, Prints, Delegates
<1> QED BY <1>1, <1>2, <1>3, <1>4, <1>5 DEF Facade, Lookups, Program

\* Histories and answers hold together in every behaviour.
THEOREM LookupInvariance == HSpec => []LInv
PROOF
<1>1. HInit /\ WInv => LInv
  BY DEF HInit, Init, LInv, LInvOf, KindOK, Resolving, Looking, Decided, Answered
<1>2. LInv /\ WInv' /\ [HNext]_hvars => LInv'
  <2> SUFFICES ASSUME LInv, WInv', [HNext]_hvars PROVE LInv'
    OBVIOUS
  <2>1. CASE UNCHANGED hvars
    <3>1. UNCHANGED <<stores, env, creds, pc, call, shared, outcome, seen>>
      BY <2>1 DEF hvars, rvars
    <3>2. \A t \in Thread : KindOK(t)' /\ Decided(t)' /\ (t \in Git \cup Cli => Answered(t)')
      BY <3>1 DEF LInv, LInvOf, KindOK, Resolving, Decided, Answered
    <3>3. \A t \in Thread : Looking(t)' => SoFar(t)'
      BY <3>1 DEF LInv, LInvOf, Looking, SoFar, Current, StoreTier, Done
    <3>4. \A t \in Thread : pc'[t] \in {"git_names", "git_get", "cli_get"} => Plain(t)'
      BY <3>1 DEF LInv, LInvOf, Plain
    <3> QED BY <3>1, <3>2, <3>3, <3>4 DEF LInv, LInvOf
  <2>2. CASE HNext
    <3>1. FNext /\ \A t \in Thread : seen'[t] = Watched(t)
      BY <2>2 DEF HNext
    <3>2. ASSUME NEW t \in Thread, LInvOf(t)',
                 /\ call' = [u \in Thread |-> call'[u]] /\ shared' = [u \in Thread |-> shared'[u]]
                 /\ \A u \in Thread : u # t =>
                      /\ pc'[u] = pc[u] /\ call'[u] = call[u] /\ creds'[u] = creds[u]
                      /\ shared'[u] = shared[u] /\ outcome'[u] = outcome[u]
          PROVE  LInv'
      <4>1. \A u \in Thread : u # t => LInvOf(u)'
        BY <3>1, <3>2, OthersStep DEF LInv
      <4> QED BY <3>2, <4>1 DEF LInv
    <3>3. ASSUME NEW t \in Thread, Lookups(t) PROVE LInv'
      <4>1. LInvOf(t)'
        BY <3>1, <3>3, LookupStep, OtherCallStep
      <4> QED BY <3>2, <3>3, <4>1, OneThread DEF Program
    <3>4. ASSUME NEW t \in Thread \ (Git \cup Cli), Facade(t) PROVE LInv'
      <4>1. CASE Construct(t) \/ Call(t) \/ Return(t)
        BY <3>1, <3>2, <3>4, <4>1, CallerStep, OneThread
      <4> QED BY <3>3, <3>4, <4>1 DEF Facade
    <3>5. ASSUME NEW t \in Git \cup Cli,
                 \/ GitStartGet(t) \/ GitNames(t) \/ GitGet(t) \/ GitStartWrite(t)
                 \/ CliStart(t) \/ CliGet(t) \/ Interrupted(t) \/ Exits(t)
          PROVE  LInv'
      <4>1. LInvOf(t)' /\ t \in Thread
        BY <3>1, <3>5, ProgramStep, FrontendAssumption
      <4> QED BY <3>2, <3>5, <4>1, OneThread DEF Program
    <3>6. ASSUME (\E p \in Process : SetEnv(p)) \/ EditStore PROVE LInv'
      <4>1. UNCHANGED <<pc, call, creds, shared, outcome>>
        BY <3>6 DEF SetEnv, EditStore
      <4>2. \A u \in Thread : LInvOf(u)'
        BY <3>1, <4>1, OthersStep DEF LInv
      <4> QED BY <4>1, <4>2 DEF LInv
    <3> QED BY <3>1, <3>3, <3>4, <3>5, <3>6, FrontendAssumption DEF FNext, Program
  <2> QED BY <2>1, <2>2
<1> QED BY <1>1, <1>2, WarningInvariance, PTL DEF HSpec

\* Whatever changes under a lookup, its answer is what the first place that had a
\* value held, or "unset" only if every place was.
THEOREM LookupsAreDecided == HSpec => []FirstTierDecides
PROOF
<1>1. LInv => FirstTierDecides
  BY DEF LInv, LInvOf, Decided, FirstTierDecides
<1> QED BY <1>1, LookupInvariance, PTL

\* The plain gets of both programs never answer from anywhere but their store.
THEOREM PlainGetsReadTheStore == HSpec => []StoreOnlyGets
PROOF
<1>1. LInv => StoreOnlyGets
  BY FrontendAssumption DEF LInv, LInvOf, Answered, StoreOnlyGets
<1> QED BY <1>1, LookupInvariance, PTL

-----------------------------------------------------------------------------
(* Components that share a store *)

\* Environment e names no section for an app it redirects.
Redirects(e) ==
    \A a \in Segment : e.store_app[PrefixOf[a]] # None => e.namespace[PrefixOf[a]] = None

\* Hosts redirect by STORE_APP alone: the section is then the component's own name
\* (Credentials.for_app), and not one that the environment makes two of them share.
ByStoreAppAlone ==
    /\ \A e \in InitEnv : e = [p \in Process |-> e[p]] /\ \A p \in Process : Redirects(e[p])
    /\ \A e \in Environments : Redirects(e)

\* What r stores, it stores under the label of the component cr is bound for.
Fits(cr, r) ==
    r.kind = "set" /\ r.value \in Value => Author[r.value] \in {cr.app, cr.ns, None}

\* A lookup's value comes from a place before the own store, or is the caller's own.
OwnOrEarlier(t) ==
    LET v == outcome[t].value
    IN  /\ pc[t] = "return" /\ IsLookup(call[t])
        /\ outcome[t].kind = "value" /\ outcome[t] # Unset
        => \/ \E i \in 1 .. Len(seen[t]) - 1 : v \in seen[t][i]
           \/ Author[v] \in {creds[t].app, creds[t].ns, None}

AInvOf(t) ==
    /\ t \notin Git \cup Cli =>
         /\ creds[t] # None => \A r \in Requests[t] : Fits(creds[t], r)
         /\ Resolving(t) => creds[t] # None /\ call[t] \in Requests[t]
    /\ Resolving(t) =>
         /\ Fits(creds[t], call[t])
         /\ call[t].kind = "set" =>
              /\ call[t].name \in Name \cup {BlankName}
              /\ call[t].value \in Value \cup {NotStr}
              /\ pc[t] # "check" =>
                   /\ call[t].name \in Name /\ call[t].value \in Value
                   /\ Stripped[call[t].value] # None
    /\ pc[t] \in {"claim", "probe", "tier"} => Bound(creds[t])
    /\ OwnOrEarlier(t)

AInv == /\ LInv
        /\ env = [p \in Process |-> env[p]] /\ \A p \in Process : Redirects(env[p])
        /\ stores = [a \in App |-> stores[a]] /\ \A a \in App : Authored(a, stores[a])
        /\ \A t \in Thread : AInvOf(t)

\* A set or unset keeps a store's labels right.
LEMMA ApplyKeepsLabels ==
    ASSUME NEW op \in Op, IsWrite(op), NEW s, parse_store(s, op.ns), NEW app, Authored(app, s),
           op.kind = "set" => Author[op.value] \in {app, op.ns, None}
    PROVE  Authored(app, Apply(op, s))
PROOF
<1> DEFINE new == Apply(op, s)
<1> SUFFICES ASSUME NEW ns \in Scope, parse_store(new, ns), NEW n \in NamesOf(new, ns)
             PROVE  Author[Section(new, ns)[n]] \in {app, ns, None}
  BY DEF Authored
<1>1. op.ns \in Scope /\ parse_store(new, op.ns)
  BY ApplyKeepsLayout, ContentAssumption DEF Op, IsWrite
<1>2. CASE ns = op.ns
  <2>1. Section(new, ns) = IF op.kind = "set" THEN Put(Section(s, ns), op.name, op.value)
                           ELSE Drop(Section(s, ns), op.name)
    BY <1>2, SectionOfApply, ContentAssumption
  <2>2. \/ op.kind = "set" /\ Section(new, ns)[n] = op.value
        \/ n \in NamesOf(s, ns) /\ Section(new, ns)[n] = Section(s, ns)[n]
    BY <2>1 DEF NamesOf, Put, Drop
  <2> QED BY <1>1, <1>2, <2>2 DEF Authored
<1>3. CASE ns # op.ns /\ (ns = None \/ op.ns = None)
  <2>1. new \in FlatStore /\ new \in NestedStore
    BY <1>1, <1>3 DEF parse_store
  <2>2. new = EmptyStore
    BY <2>1, OnlyEmptyFitsBoth, ContentAssumption
  <2> QED BY <2>2 DEF NamesOf, Section, EmptyStore
<1>4. CASE ns # op.ns /\ ns # None /\ op.ns # None
  <2>1. Section(new, ns) = Section(s, ns)
    BY <1>4, OtherSectionsOfApply DEF Scope
  <2>2. parse_store(s, ns)
    BY <1>4 DEF parse_store
  <2> QED BY <2>1, <2>2 DEF Authored, NamesOf
<1> QED BY <1>2, <1>3, <1>4

\* What is read from the own store bears the component's label.
LEMMA OwnReadIsLabelled ==
    ASSUME NEW c, NEW app, NEW ns \in Scope, NEW n, Authored(app, c), Loads(c, ns),
           Lookup(Loaded(c), ns, n) # None
    PROVE  Author[Lookup(Loaded(c), ns, n)] \in {app, ns, None}
PROOF
<1> DEFINE sec == Section(Loaded(c), ns)
<1>1. n \in DOMAIN sec /\ Lookup(Loaded(c), ns, n) = Stripped[sec[n]]
  BY DEF Lookup, normalize_secret_value
<1>2. c # Absent
  BY <1>1 DEF Loaded, Section, EmptyStore
<1>3. parse_store(c, ns) /\ Loaded(c) = c
  BY <1>2 DEF Loads, Loaded
<1>4. Author[sec[n]] \in {app, ns, None}
  BY <1>1, <1>3 DEF Authored, NamesOf
<1>5. sec[n] \in Value
  BY <1>1, <1>3, SectionFlat, FlatStoreChar
<1> QED BY <1>1, <1>4, <1>5, AuthorAssumption

\* A component is bound to its own store, or to its own section of another's.
LEMMA ConstructFits ==
    ASSUME AInv, NEW t \in Thread \ (Git \cup Cli), Construct(t)
    PROVE  \A r \in Requests[t] : Fits(creds'[t], r)
PROOF
<1>1. PICK b \in Bindings[t] :
        creds'[t] = IF b.embedded THEN for_app(b.app, b.shared, env[ProcOf[t]])
                    ELSE Credentials(b.app, b.ns, b.shared)
  BY DEF Construct, AInv, LInv, WInv, WTypeOK
<1>2. b.app \in Segment /\ Redirects(env[ProcOf[t]])
  BY ResolveAssumption DEF AInv, Process
<1>3. b.app \in {creds'[t].app, creds'[t].ns}
  BY <1>1, <1>2 DEF for_app, Credentials, Redirects
<1> QED BY <1>3, AuthorAssumption DEF Fits

\* What the caller's own step does to its part of the invariant.
LEMMA OwnLabels ==
    ASSUME AInv, NEW t \in Thread, Lookups(t), seen'[t] = Watched(t)
    PROVE  AInvOf(t)'
PROOF
<1> DEFINE n == Len(creds[t].shared)
<1>1. /\ call' = call /\ creds' = creds
      /\ pc' = [pc EXCEPT ![t] = pc'[t]]
      /\ pc = [u \in Thread |-> pc[u]] /\ outcome = [u \in Thread |-> outcome[u]]
      /\ Resolving(t)
      /\ pc'[t] \in {"env", "bind", "claim", "probe", "tier", "return"}
  BY DEF AInv, LInv, WInv, WTypeOK, Resolving, Lookups, Override, FromEnv, CheckSet, Bind, Claim,
         Probe, ProbeFails, Told, Shared, OwnRead, OwnWrite, Stays, Ends, Goto
<1>2. /\ AInvOf(t) /\ LInvOf(t)
  BY DEF AInv, LInv
<1>3. t \notin Git \cup Cli =>
        /\ creds'[t] # None => \A r \in Requests[t] : Fits(creds'[t], r)
        /\ Resolving(t)' => creds'[t] # None /\ call'[t] \in Requests[t]
  BY <1>1, <1>2 DEF AInvOf
<1>4. Fits(creds'[t], call'[t])
  BY <1>1, <1>2 DEF AInvOf
<1>5. pc'[t] \in {"claim", "probe", "tier"} => Bound(creds[t])
  BY <1>1, <1>2 DEF AInvOf, Lookups, Override, FromEnv, CheckSet, Bind, Claim, Probe, ProbeFails, Told, Shared,
                    OwnRead, OwnWrite, Goto, Ends
<1>6. ASSUME Resolving(t)', call[t].kind = "set"
      PROVE  /\ call[t].name \in Name /\ call[t].value \in Value
             /\ Stripped[call[t].value] # None
  <2>1. CASE pc[t] = "check"
    <3>1. CheckSet(t)
      BY <2>1 DEF Lookups, Override, FromEnv, Bind, Claim, Probe, ProbeFails, Told, Shared, OwnRead, OwnWrite
    <3>2. /\ call[t].name # BlankName /\ call[t].value # NotStr
          /\ Stripped[call[t].value] # None
      BY <1>1, <1>6, <3>1 DEF CheckSet, Ends, Goto, Resolving
    <3> QED BY <1>1, <1>2, <1>6, <3>2 DEF AInvOf
  <2>2. CASE pc[t] # "check"
    BY <1>1, <1>2, <1>6, <2>2 DEF AInvOf
  <2> QED BY <2>1, <2>2
<1>7. OwnOrEarlier(t)'
  <2> SUFFICES ASSUME pc'[t] = "return", IsLookup(call[t]),
                      outcome'[t].kind = "value", outcome'[t] # Unset
               PROVE  \/ \E i \in 1 .. Len(seen'[t]) - 1 : outcome'[t].value \in seen'[t][i]
                      \/ Author[outcome'[t].value] \in {creds[t].app, creds[t].ns, None}
    BY <1>1 DEF OwnOrEarlier
  <2> DEFINE v == outcome'[t].value
  <2>1. PICK r : outcome'[t] = IF r = Unset /\ call[t].kind = "require" THEN Fails("unset") ELSE r
    OBVIOUS
  <2>2. Looking(t) /\ SoFar(t)
    BY <1>1, <1>2 DEF Looking, LInvOf, KindOK, Resolving
  <2>3. /\ n \in Nat /\ Len(seen'[t]) = n + 3
        /\ \A i \in 1 .. n + 3 : seen[t][i] \subseteq seen'[t][i]
    BY <1>1, <2>2, Advances DEF AInv
  <2>4. ASSUME NEW i \in 1 .. n + 2, v \in seen[t][i]
        PROVE  \E j \in 1 .. Len(seen'[t]) - 1 : v \in seen'[t][j]
    <3>1. i \in 1 .. n + 3 /\ i \in 1 .. Len(seen'[t]) - 1
      BY <2>3
    <3> QED BY <2>3, <2>4, <3>1
  <2>5. CASE Override(t)
    <3>1. v \in seen[t][1]
      BY <1>1, <2>2, <2>5 DEF Override, Ends, Goto, Fails, Unset, SoFar, Current, Clean, env_value
    <3> QED BY <2>3, <2>4, <3>1
  <2>6. CASE FromEnv(t)
    <3>1. PICK w : w = env_value(env[ProcOf[t]].secrets[call[t].name])
      OBVIOUS
    <3>2. v = w /\ w \in seen[t][2]
      BY <1>1, <2>2, <2>6, <3>1 DEF FromEnv, Ends, Goto, Fails, Unset, SoFar, Current
    <3> QED BY <2>3, <2>4, <3>2
  <2>7. CASE CheckSet(t) \/ Bind(t) \/ Claim(t) \/ Probe(t) \/ ProbeFails(t) \/ OwnWrite(t)
    BY <1>1, <2>2, <2>7
       DEF Looking, IsLookup, CheckSet, Bind, Claim, Probe, ProbeFails, Told, OwnWrite,
           Ends, Goto, Fails, Unset
  <2>8. CASE Shared(t)
    <3> DEFINE d == Done(t)
               a == Head(shared[t])
    <3>1. /\ shared[t] \in Seq(Segment) /\ shared[t] # <<>> /\ Len(shared[t]) <= n
          /\ \A i \in 1 .. Len(shared[t]) : shared[t][i] = creds[t].shared[d + i]
          /\ Bound(creds[t]) /\ Current(t)
      BY <2>2, <2>8 DEF SoFar, Shared
    <3>2. d = n - Len(shared[t])
      BY DEF Done
    <3>3. a = creds[t].shared[d + 1] /\ d + 1 \in 1 .. n
      <4>1. PICK k, l : k = n /\ l = Len(shared[t])
        OBVIOUS
      <4>2. k \in Nat /\ l \in Nat /\ 1 <= l /\ l <= k /\ d = k - l
        BY <2>3, <3>1, <3>2, <4>1
      <4>3. (k - l) + 1 \in 1 .. k
        BY <4>2
      <4>4. a = shared[t][1] /\ 1 \in 1 .. Len(shared[t])
        BY <3>1, <4>1, <4>2
      <4>5. a = creds[t].shared[d + 1]
        BY <3>1, <4>4
      <4> QED BY <4>1, <4>2, <4>3, <4>5
    <3>4. PICK q : q = BackendGet(a, None, call[t].name)
      OBVIOUS
    <3>5. outcome'[t] = q
      BY <1>1, <2>8, <3>4 DEF Shared, Ends, Goto, Fails, Unset
    <3>6. v = StoreTier(creds[t], a, None, call[t].name)
      BY <3>1, <3>4, <3>5 DEF BackendGet, StoreTier
    <3>7. v \in seen[t][(d + 1) + 2]
      BY <3>1, <3>3, <3>6 DEF Current
    <3>8. (d + 1) + 2 \in 1 .. n + 2
      BY <2>3, <3>3
    <3> QED BY <2>4, <3>7, <3>8
  <2>9. CASE OwnRead(t)
    <3> DEFINE a == creds[t].app
               ns == creds[t].ns
    <3>1. Bound(creds[t])
      BY <1>2, <2>9 DEF AInvOf, OwnRead
    <3>2. a \in App /\ ns \in Scope /\ Authored(a, stores[a])
      BY <3>1 DEF Bound, AInv
    <3>3. PICK q : q = BackendGet(a, ns, call[t].name)
      OBVIOUS
    <3>4. outcome'[t] = IF q = Unset /\ call[t].kind = "require" THEN Fails("unset") ELSE q
      BY <1>1, <2>9, <3>3 DEF OwnRead, Ends, IsLookup
    <3>5. outcome'[t] = q
      BY <3>4 DEF Fails
    <3>6. Loads(stores[a], ns) /\ v = Lookup(Loaded(stores[a]), ns, call[t].name) /\ v # None
      BY <3>3, <3>5 DEF BackendGet, Unset
    <3> QED BY <3>2, <3>6, OwnReadIsLabelled
  <2> QED BY <2>5, <2>6, <2>7, <2>8, <2>9 DEF Lookups
<1> QED BY <1>1, <1>3, <1>4, <1>5, <1>6, <1>7 DEF AInvOf, Resolving

\* A write to the own store keeps every store's labels right.
LEMMA WriteKeepsLabels ==
    ASSUME AInv, NEW t \in Thread, OwnWrite(t)
    PROVE  stores' = [a \in App |-> stores'[a]] /\ \A a \in App : Authored(a, stores'[a])
PROOF
<1> DEFINE app == creds[t].app
           old == Loaded(stores[app])
           op == Operation(t)
<1>1. CASE stores' = stores
  BY <1>1 DEF AInv
<1>2. CASE stores' # stores
  <2>1. /\ Loads(stores[app], creds[t].ns) /\ Writes(op, old)
        /\ stores' = [stores EXCEPT ![app] = Apply(op, old)]
        /\ pc[t] = "tier" /\ call[t].kind \in {"set", "unset"}
    BY <1>2 DEF OwnWrite
  <2>2. AInvOf(t) /\ Resolving(t)
    BY <2>1 DEF AInv, Resolving
  <2>3. app \in App /\ creds[t].ns \in Scope /\ Authored(app, stores[app])
    BY <2>1, <2>2 DEF AInvOf, Bound, AInv
  <2>4. PICK w : w = op
    OBVIOUS
  <2>5. w.ns = creds[t].ns /\ w.kind = call[t].kind /\ w.name = call[t].name
    BY <2>1, <2>4 DEF Operation
  <2>6. parse_store(old, w.ns)
    BY <2>1, <2>3, <2>5, LoadedParses
  <2>7. w \in Op /\ IsWrite(w)
    <3>1. CASE call[t].kind = "set"
      <4>1. call[t].name \in Name /\ Stripped[call[t].value] \in Value
        BY <2>1, <2>2, <3>1, ContentAssumption DEF AInvOf
      <4> QED BY <2>3, <2>4, <3>1, <4>1 DEF Operation, Op, IsWrite
    <3>2. CASE call[t].kind = "unset"
      <4>1. call[t].name \in NamesOf(old, creds[t].ns)
        BY <2>1, <2>4, <2>5, <3>2 DEF Writes
      <4>2. call[t].name \in Name
        BY <2>3, <2>5, <2>6, <4>1, SectionFlat, FlatStoreChar DEF NamesOf
      <4> QED BY <2>3, <2>4, <3>2, <4>2 DEF Operation, Op, IsWrite
    <3> QED BY <2>1, <3>1, <3>2
  <2>8. w.kind = "set" => Author[w.value] \in {app, w.ns, None}
    <3> SUFFICES ASSUME w.kind = "set" PROVE Author[w.value] \in {app, w.ns, None}
      OBVIOUS
    <3>1. /\ call[t].value \in Value /\ Stripped[call[t].value] # None
          /\ Author[call[t].value] \in {app, creds[t].ns, None}
      BY <2>1, <2>2, <2>5 DEF AInvOf, Fits
    <3>2. w.value = Stripped[call[t].value]
      BY <2>4, <2>5 DEF Operation
    <3> QED BY <2>5, <3>1, <3>2, AuthorAssumption
  <2>9. Authored(app, old)
    <3>1. Authored(app, EmptyStore)
      BY DEF Authored, NamesOf, Section, EmptyStore
    <3> QED BY <2>3, <3>1 DEF Loaded
  <2>10. PICK new : new = Apply(w, old)
    OBVIOUS
  <2>11. Authored(app, new)
    BY <2>6, <2>7, <2>8, <2>9, <2>10, ApplyKeepsLabels
  <2>12. stores' = [stores EXCEPT ![app] = new]
    BY <2>1, <2>4, <2>10
  <2> QED BY <2>3, <2>11, <2>12 DEF AInv
<1> QED BY <1>1, <1>2

\* While t does nothing, its part of the invariant stands.
LEMMA OthersLabels ==
    ASSUME AInv, NEW t \in Thread,
           pc'[t] = pc[t], call'[t] = call[t], creds'[t] = creds[t],
           outcome'[t] = outcome[t], seen'[t] = Watched(t)
    PROVE  AInvOf(t)'
PROOF
<1>1. pc[t] = "return" => seen'[t] = seen[t]
  BY DEF Watched
<1>2. OwnOrEarlier(t)'
  BY <1>1 DEF OwnOrEarlier, AInv, AInvOf
<1> QED BY <1>2 DEF AInv, AInvOf, Resolving

\* The other steps of a library caller.
LEMMA CallerLabels ==
    ASSUME AInv, NEW t \in Thread \ (Git \cup Cli), Construct(t) \/ Call(t) \/ Return(t)
    PROVE  AInvOf(t)'
PROOF
<1>0. /\ pc = [u \in Thread |-> pc[u]] /\ call = [u \in Thread |-> call[u]]
      /\ creds = [u \in Thread |-> creds[u]] /\ AInvOf(t)
  BY DEF AInv, LInv, WInv, WTypeOK
<1>1. CASE Construct(t)
  <2>1. pc'[t] = "idle"
    BY <1>1 DEF Construct
  <2> QED BY <1>1, <2>1, ConstructFits DEF AInvOf, Resolving, OwnOrEarlier
<1>2. CASE Call(t)
  <2>1. PICK r \in Requests[t] : call'[t] = r /\ pc'[t] = FirstStep(r)
    BY <1>0, <1>2 DEF Call, Goto
  <2>2. creds'[t] = creds[t] /\ creds[t] # None
    BY <1>2 DEF Call
  <2>3. Fits(creds'[t], r) /\ \A q \in Requests[t] : Fits(creds'[t], q)
    BY <1>0, <2>2 DEF AInvOf
  <2>4. r.kind = "set" => r.name \in Name \cup {BlankName} /\ r.value \in Value \cup {NotStr}
    BY ResolveAssumption
  <2>5. pc'[t] \in {"override", "check", "bind"} /\ (r.kind = "set" => pc'[t] = "check")
    BY <2>1 DEF FirstStep
  <2> QED BY <2>1, <2>2, <2>3, <2>4, <2>5 DEF AInvOf, Resolving, OwnOrEarlier
<1>3. CASE Return(t)
  <2>1. pc'[t] = "idle" /\ creds'[t] = creds[t]
    BY <1>0, <1>3 DEF Return, Goto
  <2> QED BY <1>0, <2>1 DEF AInvOf, Resolving, OwnOrEarlier
<1> QED BY <1>1, <1>2, <1>3

\* A program works in the store of the host or app it was asked about.
LEMMA DelegateLabels ==
    ASSUME NEW t \in Git \cup Cli, NEW r, NEW cr,
           r.kind = "set" => /\ r.name \in Name \cup {BlankName} /\ r.value \in Value
                             /\ Author[r.value] \in {cr.app, None},
           call'[t] = r, creds'[t] = cr, pc'[t] = FirstStep(r)
    PROVE  AInvOf(t)'
PROOF
<1>1. pc'[t] \in {"override", "check", "bind"} /\ (r.kind = "set" => pc'[t] = "check")
  BY DEF FirstStep
<1>2. Fits(cr, r)
  BY DEF Fits
<1> QED BY <1>1, <1>2 DEF AInvOf, Resolving, OwnOrEarlier

\* The steps of the two programs.
LEMMA ProgramLabels ==
    ASSUME AInv, NEW t \in Git \cup Cli,
           \/ GitStartGet(t) \/ GitNames(t) \/ GitGet(t) \/ GitStartWrite(t)
           \/ CliStart(t) \/ CliGet(t) \/ Interrupted(t) \/ Exits(t)
    PROVE  AInvOf(t)'
PROOF
<1>0. /\ pc = [u \in Thread |-> pc[u]] /\ call = [u \in Thread |-> call[u]]
      /\ creds = [u \in Thread |-> creds[u]] /\ outcome = [u \in Thread |-> outcome[u]]
      /\ t \in Thread /\ LInvOf(t)
  BY FrontendAssumption DEF AInv, LInv, WInv, WTypeOK
<1>1. ASSUME pc'[t] \notin {"override", "env", "check", "bind", "claim", "probe", "tier", "return"}
      PROVE  AInvOf(t)'
  BY <1>1 DEF AInvOf, Resolving, OwnOrEarlier
<1>2. ASSUME pc'[t] = "return", ~IsLookup(call'[t]) \/ outcome'[t] = Nothing
      PROVE  AInvOf(t)'
  BY <1>2 DEF AInvOf, Resolving, OwnOrEarlier, Nothing
<1>3. CASE GitStartGet(t)
  <2>1. \/ pc'[t] \in {"git_names", "git_get"}
        \/ pc'[t] = "return" /\ outcome'[t] = Nothing
    BY <1>0, <1>3 DEF GitStartGet, Declines, Reads, Goto
  <2> QED BY <1>1, <1>2, <2>1
<1>4. CASE GitNames(t)
  <2>1. \/ pc'[t] = "git_get"
        \/ pc'[t] = "return" /\ outcome'[t] = Nothing
    BY <1>0, <1>4 DEF GitNames, Prints, Ends, Goto, Nothing, Unset
  <2> QED BY <1>1, <1>2, <2>1
<1>5. CASE GitGet(t) \/ CliGet(t)
  <2>1. call[t] \in GitGets \cup CliGets /\ call'[t] = call[t] /\ pc'[t] = "return"
    BY <1>0, <1>5 DEF GitGet, CliGet, Prints, Ends, Goto, LInvOf, KindOK
  <2>2. ~IsLookup(call'[t])
    BY <2>1 DEF GitGets, CliGets, IsLookup
  <2> QED BY <1>2, <2>1, <2>2
<1>6. CASE GitStartWrite(t)
  <2>1. PICK r \in GitRequests :
          /\ r.kind \in {"set", "unset"}
          /\ \/ Declines(t, r)
             \/ /\ r.host # None /\ r.name # None
                /\ Delegates(t, Credentials(_host_to_segment(r.host), None, <<>>), r)
    BY <1>6 DEF GitStartWrite
  <2>2. CASE Declines(t, r)
    BY <1>0, <1>2, <2>2 DEF Declines, Goto
  <2>3. CASE /\ r.host # None /\ r.name # None
             /\ Delegates(t, Credentials(_host_to_segment(r.host), None, <<>>), r)
    <3>1. PICK cr : cr = Credentials(_host_to_segment(r.host), None, <<>>)
      OBVIOUS
    <3>2. call'[t] = r /\ pc'[t] = FirstStep(r) /\ creds'[t] = cr
      BY <1>0, <2>3, <3>1 DEF Delegates, Goto
    <3>3. cr.app = _host_to_segment(r.host)
      BY <3>1 DEF Credentials
    <3>4. r.kind = "set" => /\ r.name \in Name \cup {BlankName} /\ r.value \in Value
                            /\ Author[r.value] \in {cr.app, None}
      BY <2>3, <3>3, FrontendAssumption, AuthorAssumption
    <3> QED BY <3>2, <3>4, DelegateLabels
  <2> QED BY <2>1, <2>2, <2>3
<1>7. CASE CliStart(t)
  <2>a. PICK r \in CliRequests : \E ns :
          \/ Declines(t, r)
          \/ Reads(t, "cli_get", [r EXCEPT !.ns = ns])
          \/ Delegates(t, Credentials(r.app, ns, <<>>), r)
    BY <1>7 DEF CliStart
  <2>1. PICK ns :
          \/ Declines(t, r)
          \/ Reads(t, "cli_get", [r EXCEPT !.ns = ns])
          \/ Delegates(t, Credentials(r.app, ns, <<>>), r)
    BY <2>a
  <2>2. CASE Declines(t, r)
    BY <1>0, <1>2, <2>2 DEF Declines, Goto
  <2>3. CASE Reads(t, "cli_get", [r EXCEPT !.ns = ns])
    BY <1>0, <1>1, <2>3 DEF Reads, Goto
  <2>4. CASE Delegates(t, Credentials(r.app, ns, <<>>), r)
    <3>1. PICK cr : cr = Credentials(r.app, ns, <<>>)
      OBVIOUS
    <3>2. call'[t] = r /\ pc'[t] = FirstStep(r) /\ creds'[t] = cr
      BY <1>0, <2>4, <3>1 DEF Delegates, Goto
    <3>3. cr.app = r.app
      BY <3>1 DEF Credentials
    <3>4. r.kind = "set" => /\ r.name \in Name \cup {BlankName} /\ r.value \in Value
                            /\ Author[r.value] \in {cr.app, None}
      BY <3>3, FrontendAssumption, AuthorAssumption
    <3> QED BY <3>2, <3>4, DelegateLabels
  <2> QED BY <2>1, <2>2, <2>3, <2>4
<1>8. CASE Interrupted(t)
  BY <1>0, <1>2, <1>8 DEF Interrupted, Goto
<1>9. CASE Exits(t)
  <2>1. pc'[t] = "idle"
    BY <1>0, <1>9 DEF Exits, Goto
  <2> QED BY <1>1, <2>1
<1> QED BY <1>3, <1>4, <1>5, <1>6, <1>7, <1>8, <1>9

\* Where hosts redirect by STORE_APP alone, every store keeps to its labels.
THEOREM LabelInvariance ==
    ASSUME ByStoreAppAlone
    PROVE  HSpec => []AInv
PROOF
<1>1. HInit /\ LInv => AInv
  BY ResolveAssumption, AuthorAssumption
     DEF ByStoreAppAlone, HInit, Init, AInv, AInvOf, Resolving, OwnOrEarlier
<1>2. AInv /\ LInv' /\ [HNext]_hvars => AInv'
  <2> SUFFICES ASSUME AInv, LInv', [HNext]_hvars PROVE AInv'
    OBVIOUS
  <2>1. CASE UNCHANGED hvars
    <3>1. UNCHANGED <<stores, env, creds, pc, call, outcome, seen>>
      BY <2>1 DEF hvars, rvars
    <3> QED BY <3>1 DEF AInv, AInvOf, Fits, Resolving, OwnOrEarlier, Redirects, Authored
  <2>2. CASE HNext
    <3>1. FNext /\ \A t \in Thread : seen'[t] = Watched(t)
      BY <2>2 DEF HNext
    <3>2. ASSUME NEW t \in Thread, AInvOf(t)', stores' = stores \/ OwnWrite(t), env' = env,
                 \/ Facade(t) \/ Program(t)
                 \/ GitStartGet(t) \/ GitNames(t) \/ GitGet(t) \/ GitStartWrite(t)
                 \/ CliStart(t) \/ CliGet(t)
          PROVE  AInv'
      <4>1. \A u \in Thread : u # t => AInvOf(u)'
        BY <3>1, <3>2, OneThread, OthersLabels DEF AInv
      <4>2. stores' = [a \in App |-> stores'[a]] /\ \A a \in App : Authored(a, stores'[a])
        BY <3>2, WriteKeepsLabels DEF AInv
      <4>3. \A p \in Process : Redirects(env'[p])
        BY <3>2 DEF AInv
      <4> QED BY <3>2, <4>1, <4>2, <4>3 DEF AInv, Authored, Redirects
    <3>3. ASSUME NEW t \in Thread, Lookups(t) PROVE AInv'
      <4>1. AInvOf(t)'
        BY <3>1, <3>3, OwnLabels
      <4>2. (stores' = stores \/ OwnWrite(t)) /\ env' = env
        BY <3>3 DEF Lookups, Override, FromEnv, CheckSet, Bind, Claim, Probe, ProbeFails, Told, Shared, OwnRead,
                    OwnWrite, Stays
      <4> QED BY <3>2, <3>3, <4>1, <4>2 DEF Program
    <3>4. ASSUME NEW t \in Thread \ (Git \cup Cli), Facade(t) PROVE AInv'
      <4>1. CASE Construct(t) \/ Call(t) \/ Return(t)
        <5>1. stores' = stores /\ env' = env
          BY <4>1 DEF Construct, Call, Return
        <5> QED BY <3>2, <3>4, <4>1, <5>1, CallerLabels
      <4> QED BY <3>3, <3>4, <4>1 DEF Facade
    <3>5. ASSUME NEW t \in Git \cup Cli,
                 \/ GitStartGet(t) \/ GitNames(t) \/ GitGet(t) \/ GitStartWrite(t)
                 \/ CliStart(t) \/ CliGet(t) \/ Interrupted(t) \/ Exits(t)
          PROVE  AInv'
      <4>1. AInvOf(t)' /\ t \in Thread
        BY <3>1, <3>5, ProgramLabels, FrontendAssumption
      <4>2. stores' = stores /\ env' = env
        BY <3>5 DEF GitStartGet, GitNames, GitGet, GitStartWrite, CliStart, CliGet, Interrupted,
                    Exits, Rest
      <4> QED BY <3>2, <3>5, <4>1, <4>2 DEF Program
    <3>6. ASSUME (\E p \in Process : SetEnv(p)) \/ EditStore PROVE AInv'
      <4>1. UNCHANGED <<pc, call, creds, shared, outcome>>
        BY <3>6 DEF SetEnv, EditStore
      <4>2. \A u \in Thread : AInvOf(u)'
        BY <3>1, <4>1, OthersLabels
      <4>3. CASE \E p \in Process : SetEnv(p)
        <5>1. PICK p \in Process, e \in Environments : env' = [env EXCEPT ![p] = e] /\ stores' = stores
          BY <4>3 DEF SetEnv
        <5>2. env' = [q \in Process |-> env'[q]] /\ \A q \in Process : env'[q] \in {env[q], e}
          BY <5>1 DEF AInv
        <5>3. \A q \in Process : Redirects(env'[q])
          BY <5>2 DEF ByStoreAppAlone, AInv
        <5>4. stores' = [a \in App |-> stores'[a]] /\ \A a \in App : Authored(a, stores'[a])
          BY <5>1 DEF AInv
        <5> QED BY <4>2, <5>2, <5>3, <5>4 DEF AInv, Authored, Redirects
      <4>4. CASE EditStore
        <5>1. PICK b \in App, c \in Edits : stores' = [stores EXCEPT ![b] = c] /\ env' = env
          BY <4>4 DEF EditStore
        <5>2. stores' = [a \in App |-> stores'[a]] /\ \A a \in App : Authored(a, stores'[a])
          BY <5>1, AuthorAssumption DEF AInv
        <5>3. \A q \in Process : Redirects(env'[q])
          BY <5>1 DEF AInv
        <5> QED BY <4>2, <5>1, <5>2, <5>3 DEF AInv, Authored, Redirects
      <4> QED BY <3>6, <4>3, <4>4
    <3> QED BY <3>1, <3>3, <3>4, <3>5, <3>6, FrontendAssumption DEF FNext, Program
  <2> QED BY <2>1, <2>2
<1> QED BY <1>1, <1>2, LookupInvariance, PTL DEF HSpec

\* Components redirected into one store are never answered each other's secrets
\* from it, however many there are and whatever else is written meanwhile.
THEOREM ComponentsStayApart ==
    ASSUME ByStoreAppAlone
    PROVE  HSpec => []ComponentsApart
PROOF
<1>1. AInv => ComponentsApart
  BY DEF AInv, AInvOf, OwnOrEarlier, ComponentsApart
<1> QED BY <1>1, LabelInvariance, PTL
=============================================================================
