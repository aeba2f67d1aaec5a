---------------------------- MODULE ToolsProofs -----------------------------
(***************************************************************************)
(* Proofs about what the model's tool calls go through, each for every     *)
(* value of its constants: the calls, background jobs, delegated runs, the   *)
(* hooks, the catalogue of tools and the MCP servers.                      *)
(***************************************************************************)
EXTENDS MCTools, SequenceFacts

-----------------------------------------------------------------------------
(* Calls and approvals. *)

(* The stages of a call, and its record. *)
CallStages == {"unused", "pre", "asking", "allow", "deny", "start", "body", "post", "done", "dropped"}
CallRow == [stage : CallStages, kind : CallKinds, depth : Nat, parent : CallIds \cup {0}, ok : BOOLEAN, veto : BOOLEAN]

(* Types. *)
CallsTyped ==
    /\ policy \in [mode : Modes, plan : BOOLEAN, never : BOOLEAN]
    /\ call \in [CallIds -> CallRow]
    /\ answer \in [CallIds -> {"none", "allow", "refuse"}]
    /\ chips \in [CallIds -> [started : Nat, finished : Nat]]
    /\ asked \subseteq CallIds /\ ran \subseteq CallIds /\ sunk \subseteq CallIds
    /\ stopped \in BOOLEAN

(* The policy asks before a dangerous call; a person allowed it. *)
MustAsk == policy.mode = "workspace" /\ ~policy.never
Allowed(c) == \E click \in clicks : click.id = c /\ click.what = "allow" /\ click.told = "applied"

(* What the policies and a person together let through. *)
Licensed(c) ==
    /\ call[c].kind = "wipe" => (policy.mode = "full" /\ ~policy.plan) \/ (MustAsk /\ Allowed(c))
    /\ call[c].kind \in Writes => policy.mode # "read-only" /\ ~policy.plan

(* The row of a call in the frontend, by its stage. *)
RowFits(c) ==
    /\ At(c, "unused") => chips[c].started = 0 /\ chips[c].finished = 0
    /\ ~At(c, "unused") /\ ~At(c, "done") => chips[c].started = 1 /\ chips[c].finished = 0
    /\ At(c, "done") => chips[c].started = chips[c].finished

(* Its entry in the broker: only a call that must be asked about waits for *)
(* a person, and what it takes for a yes is a click on this very call.     *)
EntryFits(c) ==
    /\ call[c].stage \in {"asking", "allow", "deny"} => call[c].kind = "wipe" /\ MustAsk
    /\ answer[c] = "allow" => Allowed(c)
    /\ At(c, "allow") => answer[c] = "allow"
    /\ c \in asked => ~At(c, "unused")
    /\ c \in asked /\ call[c].kind = "wipe" => call[c].stage \in {"asking", "allow", "deny", "dropped"}

(* Its body and its report. *)
BodyFits(c) ==
    /\ call[c].stage \in {"start", "body"} \/ c \in ran => Licensed(c)
    /\ At(c, "unused") => c \notin ran
    /\ At(c, "body") => c \in ran
    /\ At(c, "post") /\ ~call[c].veto => stopped \/ c \in ran
    /\ c \in sunk => At(c, "done") /\ c \in ran /\ ~call[c].veto

(* A call, its row and its entry agree. *)
CallFits(c) == RowFits(c) /\ EntryFits(c) /\ BodyFits(c)

(* The inductive invariant. *)
CallsInv == CallsTyped /\ \A c \in CallIds : CallFits(c)

(* No call was made. *)
LEMMA CallsInitially == CallsInit => CallsInv
<1> SUFFICES ASSUME CallsInit PROVE CallsInv
  OBVIOUS
<1>1. Unused \in CallRow /\ Unused.stage = "unused"
  BY DEF Unused, CallRow, CallStages, CallKinds
<1>2. CallsTyped
  BY <1>1 DEF CallsInit, CallsTyped
<1>3. ASSUME NEW c \in CallIds PROVE CallFits(c)
  <2>1. call[c].stage = "unused" /\ answer[c] = "none" /\ chips[c].started = 0 /\ chips[c].finished = 0
    BY <1>1 DEF CallsInit
  <2>2. c \notin asked /\ c \notin ran /\ c \notin sunk
    BY DEF CallsInit
  <2>3. QED
    BY <2>1, <2>2 DEF CallFits, RowFits, EntryFits, BodyFits, At
<1>4. QED
  BY <1>2, <1>3 DEF CallsInv

(* A call that a step leaves alone still fits: clicks and the interrupt    *)
(* only ever come, and the policy stays.                                   *)
LEMMA OthersFit ==
    ASSUME NEW d \in CallIds, CallFits(d), call'[d] = call[d], chips'[d] = chips[d], answer'[d] = answer[d],
           policy' = policy, clicks \subseteq clicks', stopped => stopped',
           d \in asked' => d \in asked, d \in ran' <=> d \in ran, d \in sunk' <=> d \in sunk
    PROVE  CallFits(d)'
<1>1. Allowed(d) => Allowed(d)'
  BY DEF Allowed
<1>2. Licensed(d) => Licensed(d)'
  BY <1>1 DEF Licensed, MustAsk
<1>3. RowFits(d)'
  BY DEF CallFits, RowFits, At
<1>4. EntryFits(d)'
  BY <1>1 DEF CallFits, EntryFits, At, MustAsk
<1>5. BodyFits(d)'
  BY <1>2 DEF CallFits, BodyFits, At
<1>6. QED
  BY <1>3, <1>4, <1>5 DEF CallFits

(* A step of one call that changes only its stage, its outcome and its     *)
(* veto.                                                                   *)
LEMMA CallGoes ==
    ASSUME CallsTyped, NEW c \in CallIds, NEW s \in CallStages, Goes(c, s)
    PROVE  /\ call' \in [CallIds -> CallRow] /\ \A d \in CallIds \ {c} : call'[d] = call[d]
           /\ call'[c].stage = s /\ call'[c].kind = call[c].kind /\ call'[c].veto = call[c].veto
<1> DEFINE u == [call[c] EXCEPT !.stage = s]
<1>1. call[c] \in CallRow /\ call' = [call EXCEPT ![c] = u]
  BY DEF CallsTyped, Goes
<1>2. u \in CallRow /\ u.stage = s /\ u.kind = call[c].kind /\ u.veto = call[c].veto
  BY <1>1 DEF CallRow
<1> HIDE DEF u
<1>3. QED
  BY <1>1, <1>2 DEF CallsTyped

(* A call that is denied closes its row with a failure. *)
LEMMA CallDenied ==
    ASSUME CallsTyped, NEW c \in CallIds, Denied(c)
    PROVE  /\ call' \in [CallIds -> CallRow] /\ \A d \in CallIds \ {c} : call'[d] = call[d]
           /\ call'[c].stage = "post" /\ call'[c].kind = call[c].kind /\ call'[c].veto = TRUE
<1> DEFINE u == [call[c] EXCEPT !.stage = "post", !.veto = TRUE, !.ok = FALSE]
<1>1. call[c] \in CallRow /\ call' = [call EXCEPT ![c] = u]
  BY DEF CallsTyped, Denied
<1>2. "post" \in CallStages
  BY DEF CallStages
<1>3. u \in CallRow /\ u.stage = "post" /\ u.kind = call[c].kind /\ u.veto = TRUE
  BY <1>1, <1>2 DEF CallRow
<1> HIDE DEF u
<1>4. QED
  BY <1>1, <1>3 DEF CallsTyped

(* A call enters the pipeline. *)
LEMMA DispatchKeeps ==
    ASSUME CallsInv, NEW c \in CallIds, NEW k \in CallKinds, NEW p \in CallIds \cup {0}, Dispatch(c, k, p)
    PROVE  CallsInv'
<1> USE DEF CallsInv
<1> DEFINE depth == IF p = 0 THEN 0 ELSE call[p].depth + 1
           refused == depth >= MaxDepth \/ stopped
           st == IF refused THEN "done" ELSE "pre"
           r == [Unused EXCEPT !.stage = st, !.kind = k, !.depth = depth, !.parent = p]
<1>1. /\ At(c, "unused") /\ call' = [call EXCEPT ![c] = r]
      /\ chips' = IF refused THEN chips ELSE [chips EXCEPT ![c].started = @ + 1]
      /\ UNCHANGED <<policy, asked, answer, stopped, sunk, clicks, ran>>
  BY DEF Dispatch, brokerVars
<1>2. depth \in Nat
  <2>1. p # 0 => call[p].depth \in Nat
    BY DEF CallsTyped, CallRow
  <2>2. QED
    BY <2>1
<1> HIDE DEF depth, refused
<1>s. st \in CallStages /\ (refused => st = "done") /\ (~refused => st = "pre")
  BY DEF CallStages
<1> HIDE DEF st
<1>3. Unused \in CallRow /\ Unused.veto = FALSE
  BY DEF Unused, CallRow, CallStages, CallKinds
<1>4. r \in CallRow /\ r.stage = st /\ r.kind = k /\ r.veto = FALSE
  BY <1>2, <1>3, <1>s DEF CallRow
<1> HIDE DEF r
<1>5. call' \in [CallIds -> CallRow] /\ call'[c] = r /\ \A d \in CallIds \ {c} : call'[d] = call[d]
  BY <1>1, <1>4 DEF CallsTyped
<1>6. chips' \in [CallIds -> [started : Nat, finished : Nat]] /\ \A d \in CallIds \ {c} : chips'[d] = chips[d]
  BY <1>1 DEF CallsTyped
<1>7. chips[c].started = 0 /\ chips[c].finished = 0 /\ c \notin ran /\ c \notin sunk /\ c \notin asked
  BY <1>1 DEF CallFits, RowFits, EntryFits, BodyFits, At
<1>8. chips'[c].finished = 0 /\ chips'[c].started = IF refused THEN 0 ELSE 1
  BY <1>1, <1>7 DEF CallsTyped
<1>9. CallsTyped'
  BY <1>1, <1>5, <1>6 DEF CallsTyped
<1>10. CallFits(c)'
  <2>1. RowFits(c)'
    BY <1>s, <1>4, <1>5, <1>8 DEF RowFits, At
  <2>2. EntryFits(c)'
    <3>1. answer[c] = "allow" => Allowed(c)'
      BY <1>1 DEF CallFits, EntryFits, Allowed
    <3>2. QED
      BY <1>s, <1>1, <1>4, <1>5, <1>7, <3>1 DEF EntryFits, At
  <2>3. BodyFits(c)'
    BY <1>s, <1>1, <1>4, <1>5, <1>7 DEF BodyFits, At
  <2>4. QED
    BY <2>1, <2>2, <2>3 DEF CallFits
<1>11. ASSUME NEW d \in CallIds \ {c} PROVE CallFits(d)'
  BY <1>1, <1>5, <1>6, OthersFit
<1>12. QED
  BY <1>9, <1>10, <1>11

(* The policies decide, or a person is asked. *)
LEMMA DecideKeeps == ASSUME CallsInv, NEW c \in CallIds, Decide(c) PROVE CallsInv'
<1> USE DEF CallsInv
<1>1. At(c, "pre") /\ UNCHANGED <<policy, answer, stopped, chips, sunk, clicks, ran>>
  BY DEF Decide
<1>p. policy.mode \in {"full", "workspace", "read-only"} /\ policy.plan \in BOOLEAN /\ policy.never \in BOOLEAN
  BY CallsAssumption DEF CallsTyped
<1>2. /\ chips[c].started = 1 /\ chips[c].finished = 0 /\ c \notin sunk
      /\ c \in asked => call[c].kind # "wipe"
      /\ (answer[c] = "allow" => Allowed(c)) /\ (c \in ran => Licensed(c))
  BY <1>1 DEF CallFits, RowFits, EntryFits, BodyFits, At
<1>a. (Allowed(c) <=> Allowed(c)') /\ (MustAsk <=> MustAsk')
  BY <1>1 DEF Allowed, MustAsk
<1>3. CASE PreDecision(c) = "allow" /\ Goes(c, "start") /\ UNCHANGED asked
  <2>1. "start" \in CallStages
    BY DEF CallStages
  <2>2. /\ call' \in [CallIds -> CallRow] /\ \A d \in CallIds \ {c} : call'[d] = call[d]
        /\ call'[c].stage = "start" /\ call'[c].kind = call[c].kind /\ call'[c].veto = call[c].veto
    BY <1>3, <2>1, CallGoes
  <2>3. Permission(c) = "allow" /\ PlanGate(c) = "allow"
    BY <1>3 DEF PreDecision
  <2>4. Licensed(c)
    <3>1. call[c].kind = "wipe" => policy.mode = "full" /\ ~policy.plan
      BY <1>p, <2>3 DEF Permission, PlanGate, Writes
    <3>2. call[c].kind \in Writes => policy.mode # "read-only" /\ ~policy.plan
      BY <1>p, <2>3 DEF Permission, PlanGate
    <3>3. QED
      BY <3>1, <3>2 DEF Licensed
  <2>5. Licensed(c)'
    BY <1>1, <1>a, <2>2, <2>4 DEF Licensed
  <2>6. CallsTyped'
    BY <1>1, <1>3, <2>2 DEF CallsTyped
  <2>7. CallFits(c)'
    <3>1. RowFits(c)'
      BY <1>1, <1>2, <2>2 DEF RowFits, At
    <3>2. EntryFits(c)'
      BY <1>1, <1>2, <1>3, <1>a, <2>2 DEF EntryFits, At
    <3>3. BodyFits(c)'
      BY <1>1, <1>2, <2>2, <2>5 DEF BodyFits, At
    <3>4. QED
      BY <3>1, <3>2, <3>3 DEF CallFits
  <2>8. ASSUME NEW d \in CallIds \ {c} PROVE CallFits(d)'
    BY <1>1, <1>3, <2>2, OthersFit
  <2>9. QED
    BY <2>6, <2>7, <2>8
<1>4. CASE Denied(c) /\ UNCHANGED asked
  <2>2. /\ call' \in [CallIds -> CallRow] /\ \A d \in CallIds \ {c} : call'[d] = call[d]
        /\ call'[c].stage = "post" /\ call'[c].kind = call[c].kind /\ call'[c].veto = TRUE
    BY <1>4, CallDenied
  <2>5. Licensed(c) => Licensed(c)'
    BY <1>1, <1>a, <2>2 DEF Licensed
  <2>6. CallsTyped'
    BY <1>1, <1>4, <2>2 DEF CallsTyped
  <2>7. CallFits(c)'
    <3>1. RowFits(c)'
      BY <1>1, <1>2, <2>2 DEF RowFits, At
    <3>2. EntryFits(c)'
      BY <1>1, <1>2, <1>4, <1>a, <2>2 DEF EntryFits, At
    <3>3. BodyFits(c)'
      BY <1>1, <1>2, <2>2, <2>5 DEF BodyFits, At
    <3>4. QED
      BY <3>1, <3>2, <3>3 DEF CallFits
  <2>8. ASSUME NEW d \in CallIds \ {c} PROVE CallFits(d)'
    BY <1>1, <1>4, <2>2, OthersFit
  <2>9. QED
    BY <2>6, <2>7, <2>8
<1>5. CASE PreDecision(c) \notin {"allow", "deny"} /\ ~policy.never /\ Goes(c, "asking") /\ asked' = asked \cup {c}
  <2>1. "asking" \in CallStages
    BY DEF CallStages
  <2>2. /\ call' \in [CallIds -> CallRow] /\ \A d \in CallIds \ {c} : call'[d] = call[d]
        /\ call'[c].stage = "asking" /\ call'[c].kind = call[c].kind /\ call'[c].veto = call[c].veto
    BY <1>5, <2>1, CallGoes
  <2>3. call[c].kind = "wipe" /\ policy.mode = "workspace"
    BY <1>5, <1>p DEF PreDecision, Permission, PlanGate, SeenGate
  <2>4. MustAsk
    BY <1>5, <2>3 DEF MustAsk
  <2>5. Licensed(c) => Licensed(c)'
    BY <1>1, <1>a, <2>2 DEF Licensed
  <2>6. CallsTyped'
    BY <1>1, <1>5, <2>2 DEF CallsTyped
  <2>7. CallFits(c)'
    <3>1. RowFits(c)'
      BY <1>1, <1>2, <2>2 DEF RowFits, At
    <3>2. EntryFits(c)'
      BY <1>1, <1>2, <1>a, <2>2, <2>3, <2>4 DEF EntryFits, At
    <3>3. BodyFits(c)'
      BY <1>1, <1>2, <2>2, <2>5 DEF BodyFits, At
    <3>4. QED
      BY <3>1, <3>2, <3>3 DEF CallFits
  <2>8. ASSUME NEW d \in CallIds \ {c} PROVE CallFits(d)'
    BY <1>1, <1>5, <2>2, OthersFit
  <2>9. QED
    BY <2>6, <2>7, <2>8
<1>6. QED
  <2>1. \/ PreDecision(c) = "allow" /\ Goes(c, "start") /\ UNCHANGED asked
        \/ Denied(c) /\ UNCHANGED asked
        \/ PreDecision(c) \notin {"allow", "deny"} /\ ~policy.never /\ Goes(c, "asking") /\ asked' = asked \cup {c}
    BY DEF Decide
  <2>2. QED
    BY <1>3, <1>4, <1>5, <2>1

(* The wait for an answer ends. *)
LEMMA AskEndKeeps == ASSUME CallsInv, NEW c \in CallIds, AskEnds(c) PROVE CallsInv'
<1> USE DEF CallsInv
<1>1. At(c, "asking") /\ UNCHANGED <<policy, asked, answer, stopped, chips, sunk, clicks, ran>>
  BY DEF AskEnds, brokerVars
<1>2. PICK s \in {"allow", "deny"} : Goes(c, s) /\ (s = "allow" => answer[c] = "allow")
  BY DEF AskEnds
<1>3. s \in CallStages
  BY DEF CallStages
<1>4. /\ call' \in [CallIds -> CallRow] /\ \A d \in CallIds \ {c} : call'[d] = call[d]
      /\ call'[c].stage = s /\ call'[c].kind = call[c].kind /\ call'[c].veto = call[c].veto
  BY <1>2, <1>3, CallGoes
<1>5. (Allowed(c) <=> Allowed(c)') /\ (MustAsk <=> MustAsk')
  BY <1>1 DEF Allowed, MustAsk
<1>6. Licensed(c) => Licensed(c)'
  BY <1>1, <1>4, <1>5 DEF Licensed
<1>7. CallsTyped'
  BY <1>1, <1>4 DEF CallsTyped
<1>8. CallFits(c)
  OBVIOUS
<1>9. CallFits(c)'
  <2>1. RowFits(c)'
    BY <1>1, <1>4, <1>8 DEF RowFits, At, CallFits
  <2>2. EntryFits(c)'
    BY <1>1, <1>2, <1>4, <1>5, <1>8 DEF EntryFits, At, CallFits
  <2>3. BodyFits(c)'
    BY <1>1, <1>4, <1>6, <1>8 DEF BodyFits, At, CallFits
  <2>4. QED
    BY <2>1, <2>2, <2>3 DEF CallFits
<1>10. ASSUME NEW d \in CallIds \ {c} PROVE CallFits(d)'
  BY <1>1, <1>4, OthersFit
<1>11. QED
  BY <1>7, <1>9, <1>10

(* The waiter leaves the broker. *)
LEMMA AskLeaveKeeps == ASSUME CallsInv, NEW c \in CallIds, AskLeaves(c) PROVE CallsInv'
<1> USE DEF CallsInv
<1>1. call[c].stage \in {"allow", "deny"} /\ UNCHANGED <<policy, answer, stopped, chips, sunk, clicks, ran>> /\ asked' = asked \ {c}
  BY DEF AskLeaves, Forget
<1>2. /\ call' \in [CallIds -> CallRow] /\ \A d \in CallIds \ {c} : call'[d] = call[d]
      /\ call'[c].kind = call[c].kind
      /\ (call'[c].stage = "start" /\ At(c, "allow")) \/ (call'[c].stage = "post" /\ call'[c].veto = TRUE)
  <2>1. CASE At(c, "allow")
    <3>1. Goes(c, "start") /\ "start" \in CallStages
      BY <2>1 DEF AskLeaves, CallStages
    <3>2. QED
      BY <2>1, <3>1, CallGoes
  <2>2. CASE ~At(c, "allow")
    <3>1. Denied(c)
      BY <2>2 DEF AskLeaves
    <3>2. QED
      BY <3>1, CallDenied
  <2>3. QED
    BY <2>1, <2>2
<1>3. (Allowed(c) <=> Allowed(c)') /\ (MustAsk <=> MustAsk')
  BY <1>1 DEF Allowed, MustAsk
<1>4. Licensed(c) => Licensed(c)'
  BY <1>1, <1>2, <1>3 DEF Licensed
<1>5. CallFits(c)
  OBVIOUS
<1>6. At(c, "allow") => Licensed(c)'
  <2>1. At(c, "allow") => call[c].kind = "wipe" /\ MustAsk /\ Allowed(c)
    BY <1>5 DEF CallFits, EntryFits, At
  <2>2. QED
    BY <1>2, <1>3, <2>1 DEF Licensed, Writes
<1>7. CallsTyped'
  BY <1>1, <1>2 DEF CallsTyped
<1>8. CallFits(c)'
  <2>1. RowFits(c)'
    BY <1>1, <1>2, <1>5 DEF RowFits, At, CallFits
  <2>2. EntryFits(c)'
    BY <1>1, <1>2, <1>3, <1>5 DEF EntryFits, At, CallFits
  <2>3. BodyFits(c)'
    BY <1>1, <1>2, <1>4, <1>5, <1>6 DEF BodyFits, At, CallFits
  <2>4. QED
    BY <2>1, <2>2, <2>3 DEF CallFits
<1>9. ASSUME NEW d \in CallIds \ {c} PROVE CallFits(d)'
  BY <1>1, <1>2, OthersFit
<1>10. QED
  BY <1>7, <1>8, <1>9

(* The body starts. *)
LEMMA BodyStartKeeps == ASSUME CallsInv, NEW c \in CallIds, BodyStarts(c) PROVE CallsInv'
<1> USE DEF CallsInv
<1>1. /\ At(c, "start") /\ Goes(c, "body") /\ ran' = ran \cup {c}
      /\ asked' = IF call[c].kind = "ask" THEN asked \cup {c} ELSE asked
      /\ UNCHANGED <<policy, answer, stopped, chips, sunk, clicks>>
  BY DEF BodyStarts
<1>2. "body" \in CallStages
  BY DEF CallStages
<1>3. /\ call' \in [CallIds -> CallRow] /\ \A d \in CallIds \ {c} : call'[d] = call[d]
      /\ call'[c].stage = "body" /\ call'[c].kind = call[c].kind /\ call'[c].veto = call[c].veto
  BY <1>1, <1>2, CallGoes
<1>4. (Allowed(c) <=> Allowed(c)') /\ (MustAsk <=> MustAsk')
  BY <1>1 DEF Allowed, MustAsk
<1>5. CallFits(c) /\ Licensed(c)
  BY <1>1 DEF CallFits, BodyFits, At
<1>6. Licensed(c)'
  BY <1>1, <1>3, <1>4, <1>5 DEF Licensed
<1>7. CallsTyped'
  BY <1>1, <1>3 DEF CallsTyped
<1>8. CallFits(c)'
  <2>1. RowFits(c)'
    BY <1>1, <1>3, <1>5 DEF RowFits, At, CallFits
  <2>2. EntryFits(c)'
    BY <1>1, <1>3, <1>4, <1>5 DEF EntryFits, At, CallFits
  <2>3. BodyFits(c)'
    BY <1>1, <1>3, <1>5, <1>6 DEF BodyFits, At, CallFits
  <2>4. QED
    BY <2>1, <2>2, <2>3 DEF CallFits
<1>9. ASSUME NEW d \in CallIds \ {c} PROVE CallFits(d)'
  BY <1>1, <1>3, OthersFit
<1>10. QED
  BY <1>7, <1>8, <1>9

(* The body ends. *)
LEMMA BodyEndKeeps == ASSUME CallsInv, NEW c \in CallIds, NEW ok \in BOOLEAN, BodyEnds(c, ok) PROVE CallsInv'
<1> USE DEF CallsInv
<1> DEFINE u == [call[c] EXCEPT !.stage = "post", !.ok = ok]
<1>1. /\ At(c, "body") /\ call[c] \in CallRow /\ call' = [call EXCEPT ![c] = u] /\ asked' \subseteq asked
      /\ UNCHANGED <<policy, answer, stopped, chips, sunk, clicks, ran>>
  BY DEF BodyEnds, Forget, CallsTyped
<1>2. u \in CallRow /\ u.stage = "post" /\ u.kind = call[c].kind /\ u.veto = call[c].veto
  BY <1>1 DEF CallRow, CallStages
<1> HIDE DEF u
<1>3. /\ call' \in [CallIds -> CallRow] /\ \A d \in CallIds \ {c} : call'[d] = call[d]
      /\ call'[c].stage = "post" /\ call'[c].kind = call[c].kind /\ call'[c].veto = call[c].veto
  BY <1>1, <1>2 DEF CallsTyped
<1>4. (Allowed(c) <=> Allowed(c)') /\ (MustAsk <=> MustAsk')
  BY <1>1 DEF Allowed, MustAsk
<1>5. CallFits(c)
  OBVIOUS
<1>6. Licensed(c) => Licensed(c)'
  BY <1>1, <1>3, <1>4 DEF Licensed
<1>7. CallsTyped'
  BY <1>1, <1>3 DEF CallsTyped
<1>8. CallFits(c)'
  <2>1. RowFits(c)'
    BY <1>1, <1>3, <1>5 DEF RowFits, At, CallFits
  <2>2. EntryFits(c)'
    BY <1>1, <1>3, <1>4, <1>5 DEF EntryFits, At, CallFits
  <2>3. BodyFits(c)'
    BY <1>1, <1>3, <1>5, <1>6 DEF BodyFits, At, CallFits
  <2>4. QED
    BY <2>1, <2>2, <2>3 DEF CallFits
<1>9. ASSUME NEW d \in CallIds \ {c} PROVE CallFits(d)'
  BY <1>1, <1>3, OthersFit
<1>10. QED
  BY <1>7, <1>8, <1>9

(* A body that is dropped takes the calls inside it along, whatever they   *)
(* are doing: an approval one of them was asking for stays in the map.     *)
LEMMA BodyDropKeeps == ASSUME CallsInv, NEW c \in CallIds, NEW why \in {"stop", "timeout"}, BodyDropped(c, why) PROVE CallsInv'
<1> USE DEF CallsInv
<1>1. /\ call' = [d \in CallIds |-> IF d = c THEN [call[d] EXCEPT !.stage = "post", !.ok = FALSE]
                                    ELSE IF d \in Inside(c) THEN [call[d] EXCEPT !.stage = "dropped"] ELSE call[d]]
      /\ UNCHANGED <<policy, asked, answer, stopped, chips, sunk, clicks, ran>>
      /\ call[c].stage \in {"start", "body"} /\ (call[c].stage = "start" => stopped)
  BY DEF BodyDropped, brokerVars, At
<1>2. ASSUME NEW d \in CallIds, d # c, d \notin Inside(c) PROVE call'[d] \in CallRow /\ CallFits(d)'
  <2>1. call'[d] = call[d]
    BY <1>1, <1>2
  <2>2. CallFits(d)'
    BY <1>1, <2>1, OthersFit
  <2>3. QED
    BY <2>1, <2>2 DEF CallsTyped
<1>3. ASSUME NEW d \in CallIds, d = c \/ d \in Inside(c) PROVE call'[d] \in CallRow /\ CallFits(d)'
  <2>1. PICK s \in {"post", "dropped"} : /\ call'[d].stage = s /\ call'[d] \in CallRow /\ (s = "post" <=> d = c)
                                          /\ call'[d].kind = call[d].kind /\ call'[d].veto = call[d].veto
    <3>1. CASE d = c
      <4>1. call[c] \in CallRow /\ call'[c] = [call[c] EXCEPT !.stage = "post", !.ok = FALSE]
        BY <1>1 DEF CallsTyped
      <4>2. call'[c] \in CallRow /\ call'[c].stage = "post" /\ call'[c].kind = call[c].kind /\ call'[c].veto = call[c].veto
        BY <4>1 DEF CallRow, CallStages
      <4>3. QED
        BY <3>1, <4>2
    <3>2. CASE d # c /\ d \in Inside(c)
      <4>1. call[d] \in CallRow /\ call'[d] = [call[d] EXCEPT !.stage = "dropped"]
        BY <1>1, <3>2 DEF CallsTyped
      <4>2. call'[d] \in CallRow /\ call'[d].stage = "dropped" /\ call'[d].kind = call[d].kind /\ call'[d].veto = call[d].veto
        BY <4>1 DEF CallRow, CallStages
      <4>3. QED
        BY <3>2, <4>2
    <3>3. QED
      BY <1>3, <3>1, <3>2
  <2>2. call[d].stage \notin {"unused", "done"}
    BY <1>1, <1>3 DEF Inside
  <2>3. (Allowed(d) <=> Allowed(d)') /\ (MustAsk <=> MustAsk')
    BY <1>1 DEF Allowed, MustAsk
  <2>4. Licensed(d) => Licensed(d)'
    BY <1>1, <2>1, <2>3 DEF Licensed
  <2>5. CallFits(d)
    OBVIOUS
  <2>6. RowFits(d)'
    BY <1>1, <2>1, <2>2, <2>5 DEF RowFits, At, CallFits
  <2>7. EntryFits(d)'
    BY <1>1, <2>1, <2>2, <2>3, <2>5 DEF EntryFits, At, CallFits
  <2>8. BodyFits(d)'
    BY <1>1, <2>1, <2>2, <2>4, <2>5, ZenonT(60) DEF BodyFits, At, CallFits
  <2>9. QED
    BY <2>1, <2>6, <2>7, <2>8 DEF CallFits
<1>4. call' \in [CallIds -> CallRow]
  BY <1>1, <1>2, <1>3
<1>5. CallsTyped'
  BY <1>1, <1>4 DEF CallsTyped
<1>6. QED
  BY <1>2, <1>3, <1>5

(* The row is closed. *)
LEMMA FinishKeeps == ASSUME CallsInv, NEW c \in CallIds, Finish(c) PROVE CallsInv'
<1> USE DEF CallsInv
<1>1. /\ At(c, "post") /\ Goes(c, "done") /\ chips' = [chips EXCEPT ![c].finished = @ + 1]
      /\ sunk' = IF call[c].ok \/ call[c].veto \/ stopped THEN sunk ELSE sunk \cup {c}
      /\ UNCHANGED <<policy, asked, answer, stopped, clicks, ran>>
  BY DEF Finish, brokerVars
<1>2. "done" \in CallStages
  BY DEF CallStages
<1>3. /\ call' \in [CallIds -> CallRow] /\ \A d \in CallIds \ {c} : call'[d] = call[d]
      /\ call'[c].stage = "done" /\ call'[c].kind = call[c].kind /\ call'[c].veto = call[c].veto
  BY <1>1, <1>2, CallGoes
<1>4. (Allowed(c) <=> Allowed(c)') /\ (MustAsk <=> MustAsk')
  BY <1>1 DEF Allowed, MustAsk
<1>5. CallFits(c)
  OBVIOUS
<1>6. Licensed(c) => Licensed(c)'
  BY <1>1, <1>3, <1>4 DEF Licensed
<1>7. /\ chips' \in [CallIds -> [started : Nat, finished : Nat]] /\ \A d \in CallIds \ {c} : chips'[d] = chips[d]
      /\ chips'[c].started = 1 /\ chips'[c].finished = 1
  <2>1. chips[c].started = 1 /\ chips[c].finished = 0
    BY <1>1, <1>5 DEF CallFits, RowFits, At
  <2>2. QED
    BY <1>1, <2>1 DEF CallsTyped
<1>8. CallsTyped'
  BY <1>1, <1>3, <1>7 DEF CallsTyped
<1>9. CallFits(c)'
  <2>1. RowFits(c)'
    BY <1>3, <1>7 DEF RowFits, At
  <2>2. EntryFits(c)'
    BY <1>1, <1>3, <1>4, <1>5 DEF EntryFits, At, CallFits
  <2>3. BodyFits(c)'
    BY <1>1, <1>3, <1>5, <1>6 DEF BodyFits, At, CallFits
  <2>4. QED
    BY <2>1, <2>2, <2>3 DEF CallFits
<1>10. ASSUME NEW d \in CallIds \ {c} PROVE CallFits(d)'
  <2>1. d \in sunk' <=> d \in sunk
    BY <1>1
  <2>2. QED
    BY <1>1, <1>3, <1>7, <2>1, OthersFit
<1>11. QED
  BY <1>8, <1>9, <1>10

(* A person clicks. *)
LEMMA AnswerKeeps == ASSUME CallsInv, NEW c \in CallIds, NEW what \in {"allow", "refuse"}, Answer(c, what) PROVE CallsInv'
<1> USE DEF CallsInv
<1> DEFINE Applies == /\ answer' = [answer EXCEPT ![c] = what] /\ call[c].stage \in {"asking", "body"}
                      /\ \E click \in clicks' : click.id = c /\ click.what = what /\ click.told = "applied"
<1>1. /\ UNCHANGED <<policy, call, stopped, chips, sunk, ran>> /\ clicks \subseteq clicks' /\ asked' \subseteq asked
      /\ UNCHANGED answer \/ Applies
  <2>1. CASE c \in asked
    <3>1. PICK b \in {TRUE, FALSE} : clicks' = clicks \cup {[id |-> c, what |-> what, told |-> "applied", late |-> b]}
      <4>1. clicks' = clicks \cup {[id |-> c, what |-> what, told |-> "applied", late |-> call[c].stage \notin {"asking", "body"}]}
        BY <2>1 DEF Answer
      <4>2. CASE call[c].stage \notin {"asking", "body"}
        <5>1. (call[c].stage \notin {"asking", "body"}) = TRUE
          BY <4>2
        <5>2. QED
          BY <4>1, <5>1
      <4>3. CASE call[c].stage \in {"asking", "body"}
        <5>1. (call[c].stage \notin {"asking", "body"}) = FALSE
          BY <4>3
        <5>2. QED
          BY <4>1, <5>1
      <4>4. QED
        BY <4>2, <4>3
    <3>2. \E click \in clicks' : click.id = c /\ click.what = what /\ click.told = "applied"
      <4> DEFINE click == [id |-> c, what |-> what, told |-> "applied", late |-> b]
      <4>1. click \in clicks'
        BY <3>1
      <4>2. click.id = c /\ click.what = what /\ click.told = "applied"
        OBVIOUS
      <4> HIDE DEF click
      <4>3. QED
        BY <4>1, <4>2
    <3>3. asked' = asked \ {c} /\ answer' = IF call[c].stage \in {"asking", "body"} THEN [answer EXCEPT ![c] = what] ELSE answer
      BY <2>1 DEF Answer
    <3>4. UNCHANGED <<policy, call, stopped, chips, sunk, ran>>
      BY DEF Answer
    <3>5. clicks \subseteq clicks'
      BY <3>1
    <3>6. QED
      BY <3>2, <3>3, <3>4, <3>5
  <2>2. CASE c \notin asked
    BY <2>2 DEF Answer, brokerVars
  <2>3. QED
    BY <2>1, <2>2
<1>2. CallsTyped'
  BY <1>1 DEF CallsTyped
<1>3. CASE UNCHANGED answer
  <2>1. ASSUME NEW d \in CallIds PROVE CallFits(d)'
    BY <1>1, <1>3, OthersFit
  <2>2. QED
    BY <1>2, <2>1
<1>4. CASE Applies
  <2>1. /\ answer'[c] = what /\ \A d \in CallIds \ {c} : answer'[d] = answer[d]
        /\ what = "allow" => Allowed(c)'
    BY <1>4 DEF CallsTyped, Allowed
  <2>2. (Allowed(c) => Allowed(c)') /\ (MustAsk <=> MustAsk')
    BY <1>1 DEF Allowed, MustAsk
  <2>3. Licensed(c) => Licensed(c)'
    BY <1>1, <2>2 DEF Licensed
  <2>4. CallFits(c) /\ ~At(c, "allow")
    BY <1>4 DEF At
  <2>5. CallFits(c)'
    <3>1. RowFits(c)'
      BY <1>1, <2>4 DEF RowFits, At, CallFits
    <3>2. EntryFits(c)'
      BY <1>1, <2>1, <2>2, <2>4 DEF EntryFits, At, CallFits
    <3>3. BodyFits(c)'
      BY <1>1, <2>3, <2>4 DEF BodyFits, At, CallFits
    <3>4. QED
      BY <3>1, <3>2, <3>3 DEF CallFits
  <2>6. ASSUME NEW d \in CallIds \ {c} PROVE CallFits(d)'
    BY <1>1, <2>1, OthersFit
  <2>7. QED
    BY <1>2, <2>5, <2>6
<1>5. QED
  BY <1>1, <1>3, <1>4

(* Every step keeps the invariant. *)
LEMMA CallsStep == CallsInv /\ [CallsNext]_callVars => CallsInv'
<1> SUFFICES ASSUME CallsInv, [CallsNext]_callVars PROVE CallsInv'
  OBVIOUS
<1>1. CASE UNCHANGED callVars \/ UserEdits \/ UserStops
  <2>1. UNCHANGED <<policy, call, asked, answer, chips, sunk, clicks, ran>> /\ stopped' \in BOOLEAN /\ (stopped => stopped')
    BY <1>1 DEF callVars, brokerVars, UserEdits, UserStops, CallsInv, CallsTyped
  <2>2. CallsTyped'
    BY <2>1 DEF CallsInv, CallsTyped
  <2>3. ASSUME NEW d \in CallIds PROVE CallFits(d)'
    BY <2>1, OthersFit DEF CallsInv
  <2>4. QED
    BY <2>2, <2>3 DEF CallsInv
<1>2. ASSUME NEW c \in CallIds, CallSteps(c) \/ Answer(c, "allow") \/ Answer(c, "refuse") PROVE CallsInv'
  BY <1>2, DecideKeeps, AskEndKeeps, AskLeaveKeeps, BodyStartKeeps, FinishKeeps, BodyEndKeeps, BodyDropKeeps, AnswerKeeps
     DEF CallSteps
<1>3. QED
  BY <1>1, <1>2, DispatchKeeps DEF CallsNext

(* No call that needs a yes runs without one, and every call row shown as  *)
(* started is closed once (pipeline.rs, broker.rs, subagent.rs).           *)
THEOREM CallsKept == CallsSpec => [](NothingUnapproved /\ RowsClose)
<1>1. CallsInv => NothingUnapproved
  <2> SUFFICES ASSUME CallsInv PROVE NothingUnapproved
    OBVIOUS
  <2>1. \A c \in ran : Licensed(c)
    BY DEF CallsInv, CallsTyped, CallFits, BodyFits
  <2>2. \A c \in sunk : c \in ran /\ ~call[c].veto
    BY DEF CallsInv, CallsTyped, CallFits, BodyFits
  <2>3. QED
    BY <2>1, <2>2 DEF NothingUnapproved, Licensed, MustAsk, Allowed
<1>2. CallsInv => RowsClose
  BY DEF CallsInv, CallFits, RowFits, EntryFits, RowsClose, At
<1>3. QED
  BY CallsInitially, CallsStep, <1>1, <1>2, PTL DEF CallsSpec

-----------------------------------------------------------------------------
(* Background jobs. *)

(* A job's record and its watcher. *)
JobEntry == [status : {"none", "running", "gone"} \cup Final, produced : Nat, start : Nat, mark : Nat]
Watching == [child : {"none", "alive", "dead"}, cancelled : BOOLEAN, doing : {"none", "watch", "log", "push", "over"} \cup Final]

(* Types. *)
JobsTyped ==
    /\ owner \in {"live", "removed", "cleared"}
    /\ job \in [JobIds -> JobEntry]
    /\ watcher \in [JobIds -> Watching]
    /\ spilled \in [JobIds -> SUBSET Nat] /\ refusedBy \in [JobIds -> SUBSET Nat]
    /\ handed \in [JobIds -> SUBSET Nat] /\ admitted \in [JobIds -> SUBSET Nat]
    /\ rows \in [JobIds -> Nat] /\ notes \in [JobIds -> Nat]

(* How far a job's watcher has come, and what it has told by then. *)
WatcherFits(j) ==
    /\ job[j].status = "none" <=> watcher[j].doing = "none"
    /\ watcher[j].doing = "none" => watcher[j].child = "none"
    /\ watcher[j].doing = "watch" => watcher[j].child = "alive"
    /\ watcher[j].doing \notin {"none", "watch"} => watcher[j].child = "dead"
    /\ job[j].status \in Final => watcher[j].doing \in {"log", "push", "over"}
    /\ job[j].status = "gone" => owner = "cleared" /\ (watcher[j].cancelled \/ watcher[j].child = "dead")

(* What the owner was told by then: one row, one note. *)
ToldFits(j) ==
    /\ watcher[j].doing # "over" => notes[j] = 0
    /\ notes[j] <= 1
    /\ watcher[j].doing \notin {"push", "over"} => rows[j] = 0
    /\ watcher[j].doing = "push" /\ owner = "live" => rows[j] = 1
    /\ watcher[j].doing = "over" /\ owner = "live" => notes[j] = 1 /\ rows[j] = 1

(* Window, mark and what was given out or given up. *)
OutputFits(j) ==
    /\ job[j].start <= job[j].produced /\ job[j].mark <= job[j].produced
    /\ \A b \in 1 .. job[j].start : b \in spilled[j] \cup refusedBy[j]
    /\ \A b \in handed[j] : b <= job[j].mark
    /\ \A b \in admitted[j] : b <= job[j].mark /\ b <= job[j].start /\ b \notin handed[j]

(* A job, its watcher, its rows and its output agree. *)
JobFits(j) == WatcherFits(j) /\ ToldFits(j) /\ OutputFits(j)

(* The inductive invariant. *)
JobsInv == JobsTyped /\ again = {} /\ \A j \in JobIds : JobFits(j)


(* No job was started. *)
LEMMA JobsInitially == JobsInit => JobsInv
<1> SUFFICES ASSUME JobsInit PROVE JobsInv
  OBVIOUS
<1>1. NoEntryYet \in JobEntry /\ Sleeping \in Watching
  BY DEF NoEntryYet, Sleeping, JobEntry, Watching
<1>2. JobsTyped
  BY <1>1 DEF JobsInit, JobsTyped
<1>3. ASSUME NEW j \in JobIds PROVE JobFits(j)
  <2>1. /\ job[j].status = "none" /\ job[j].produced = 0 /\ job[j].start = 0 /\ job[j].mark = 0
        /\ watcher[j].doing = "none" /\ watcher[j].child = "none"
    BY DEF JobsInit, NoEntryYet, Sleeping
  <2>2. notes[j] = 0 /\ rows[j] = 0 /\ handed[j] = {} /\ admitted[j] = {}
    BY DEF JobsInit
  <2>3. 1 .. job[j].start = {}
    BY <2>1
  <2>4. QED
    BY <2>1, <2>2, <2>3 DEF JobFits, WatcherFits, ToldFits, OutputFits, Final
<1>4. QED
  BY <1>2, <1>3 DEF JobsInv, JobsInit

(* A step that moves no output. *)
LEMMA OutputLeft ==
    ASSUME JobsTyped, NEW j \in JobIds, OutputFits(j), UNCHANGED <<spilled, refusedBy, handed, admitted>>,
           job'[j].produced = job[j].produced, job'[j].start = job[j].start, job'[j].mark = job[j].mark
    PROVE  OutputFits(j)'
  BY DEF OutputFits

(* A job no step is about. *)
LEMMA JobLeft ==
    ASSUME NEW j \in JobIds, JobFits(j), owner' = owner, job'[j] = job[j], watcher'[j] = watcher[j],
           notes'[j] = notes[j], rows'[j] = rows[j], spilled'[j] = spilled[j], refusedBy'[j] = refusedBy[j],
           handed'[j] = handed[j], admitted'[j] = admitted[j]
    PROVE  JobFits(j)'
  BY DEF JobFits, WatcherFits, ToldFits, OutputFits

(* A step of one job's watcher: its output stays as it is. *)
LEMMA WatcherSteps ==
    ASSUME JobsInv, NEW j \in JobIds, NEW w \in Watching, NEW e \in JobEntry,
           watcher' = [watcher EXCEPT ![j] = w], job' = [job EXCEPT ![j] = e],
           e.produced = job[j].produced, e.start = job[j].start, e.mark = job[j].mark,
           rows' \in [JobIds -> Nat], notes' \in [JobIds -> Nat],
           \A i \in JobIds \ {j} : rows'[i] = rows[i] /\ notes'[i] = notes[i],
           UNCHANGED <<owner, outputVars>>, WatcherFits(j)', ToldFits(j)'
    PROVE  JobsInv'
<1> USE DEF JobsInv
<1>1. UNCHANGED <<spilled, refusedBy, handed, admitted, again>>
  BY DEF outputVars
<1>2. JobsTyped'
  BY <1>1 DEF JobsTyped
<1>3. job'[j] = e
  BY DEF JobsTyped
<1>4. JobFits(j)'
  BY <1>1, <1>3, OutputLeft DEF JobFits
<1>5. ASSUME NEW i \in JobIds \ {j} PROVE JobFits(i)'
  <2>1. job'[i] = job[i] /\ watcher'[i] = watcher[i]
    BY DEF JobsTyped
  <2>2. QED
    BY <1>1, <2>1, JobLeft
<1>6. QED
  BY <1>1, <1>2, <1>4, <1>5

(* A job starts. *)
LEMMA StartKeeps == ASSUME JobsInv, NEW j \in JobIds, StartShell(j) PROVE JobsInv'
<1> DEFINE w == [child |-> "alive", cancelled |-> FALSE, doing |-> "watch"]
           e == [job[j] EXCEPT !.status = "running"]
<1>1. /\ watcher' = [watcher EXCEPT ![j] = w] /\ job' = [job EXCEPT ![j] = e] /\ UNCHANGED <<owner, rows, notes, outputVars>>
      /\ watcher[j].doing = "none" /\ job[j] \in JobEntry
  BY DEF StartShell, Sleeping, JobsInv, JobsTyped
<1>2. w \in Watching /\ w.child = "alive" /\ w.doing = "watch"
  BY DEF Watching
<1>3. e \in JobEntry /\ e.produced = job[j].produced /\ e.start = job[j].start /\ e.mark = job[j].mark /\ e.status = "running"
  BY <1>1 DEF JobEntry
<1> HIDE DEF w, e
<1>4. watcher'[j] = w /\ job'[j] = e /\ rows \in [JobIds -> Nat] /\ notes \in [JobIds -> Nat]
  BY <1>1 DEF JobsInv, JobsTyped
<1>5. WatcherFits(j)'
  BY <1>2, <1>3, <1>4 DEF WatcherFits, Final
<1>6. ToldFits(j)'
  <2>1. notes[j] = 0 /\ rows[j] = 0
    BY <1>1 DEF JobsInv, JobFits, ToldFits
  <2>2. QED
    BY <1>1, <1>2, <1>4, <2>1 DEF ToldFits
<1>7. QED
  BY <1>1, <1>2, <1>3, <1>4, <1>5, <1>6, WatcherSteps

(* A job is killed. *)
LEMMA KillKeeps == ASSUME JobsInv, NEW j \in JobIds, KillJob(j) PROVE JobsInv'
<1> DEFINE w == [watcher[j] EXCEPT !.cancelled = TRUE]
<1>1. /\ watcher' = [watcher EXCEPT ![j] = w] /\ UNCHANGED <<owner, job, rows, notes, outputVars>>
      /\ watcher[j] \in Watching /\ job[j] \in JobEntry /\ job' = [job EXCEPT ![j] = job[j]]
  BY DEF KillJob, JobsInv, JobsTyped
<1>2. w \in Watching /\ w.child = watcher[j].child /\ w.doing = watcher[j].doing /\ w.cancelled = TRUE
  BY <1>1 DEF Watching
<1> HIDE DEF w
<1>3. watcher'[j] = w /\ rows \in [JobIds -> Nat] /\ notes \in [JobIds -> Nat] /\ JobFits(j)
  BY <1>1 DEF JobsInv, JobsTyped
<1>4. WatcherFits(j)'
  BY <1>1, <1>2, <1>3 DEF JobFits, WatcherFits
<1>5. ToldFits(j)'
  BY <1>1, <1>2, <1>3 DEF JobFits, ToldFits
<1>6. QED
  BY <1>1, <1>2, <1>3, <1>4, <1>5, WatcherSteps

(* The child exits, or was killed. *)
LEMMA ChildDies ==
    ASSUME JobsInv, NEW j \in JobIds, NEW how \in Final,
           watcher[j].doing = "watch", watcher' = [watcher EXCEPT ![j].child = "dead", ![j].doing = how],
           UNCHANGED <<owner, job, rows, notes, outputVars>>
    PROVE  JobsInv'
<1> DEFINE w == [watcher[j] EXCEPT !.child = "dead", !.doing = how]
<1>1. /\ watcher' = [watcher EXCEPT ![j] = w]
      /\ watcher[j] \in Watching /\ job[j] \in JobEntry /\ job' = [job EXCEPT ![j] = job[j]]
  BY DEF JobsInv, JobsTyped
<1>2. w \in Watching /\ w.child = "dead" /\ w.doing = how /\ w.cancelled = watcher[j].cancelled
  BY <1>1 DEF Watching
<1> HIDE DEF w
<1>3. watcher'[j] = w /\ rows \in [JobIds -> Nat] /\ notes \in [JobIds -> Nat] /\ JobFits(j)
  BY <1>1 DEF JobsInv, JobsTyped
<1>4. WatcherFits(j)'
  BY <1>1, <1>2, <1>3 DEF JobFits, WatcherFits, Final
<1>5. ToldFits(j)'
  BY <1>1, <1>2, <1>3 DEF JobFits, ToldFits, Final
<1>6. QED
  BY <1>1, <1>2, <1>3, <1>4, <1>5, WatcherSteps

(* The watcher settles the job. *)
LEMMA SettleKeeps == ASSUME JobsInv, NEW j \in JobIds, Settle(j) PROVE JobsInv'
<1>1. UNCHANGED <<owner, rows, notes, outputVars>> /\ watcher[j].doing \in Final
      /\ watcher[j] \in Watching /\ job[j] \in JobEntry /\ JobFits(j) /\ rows \in [JobIds -> Nat] /\ notes \in [JobIds -> Nat]
  BY DEF Settle, JobsInv, JobsTyped
<1>2. CASE HasEntry(j)
  <2> DEFINE w == [watcher[j] EXCEPT !.doing = "log"]
             e == [job[j] EXCEPT !.status = watcher[j].doing]
  <2>1. watcher' = [watcher EXCEPT ![j] = w] /\ job' = [job EXCEPT ![j] = e]
    BY <1>2 DEF Settle, JobsInv, JobsTyped
  <2>2. w \in Watching /\ w.child = watcher[j].child /\ w.doing = "log"
    BY <1>1 DEF Watching
  <2>3. e \in JobEntry /\ e.produced = job[j].produced /\ e.start = job[j].start /\ e.mark = job[j].mark /\ e.status \in Final
    BY <1>1 DEF JobEntry
  <2> HIDE DEF w, e
  <2>4. watcher'[j] = w /\ job'[j] = e
    BY <2>1 DEF JobsInv, JobsTyped
  <2>5. WatcherFits(j)'
    BY <1>1, <2>2, <2>3, <2>4 DEF JobFits, WatcherFits, Final
  <2>6. ToldFits(j)'
    BY <1>1, <2>2, <2>4 DEF JobFits, ToldFits, Final
  <2>7. QED
    BY <1>1, <2>1, <2>2, <2>3, <2>5, <2>6, WatcherSteps
<1>3. CASE ~HasEntry(j)
  <2> DEFINE w == [watcher[j] EXCEPT !.doing = "over"]
  <2>1. watcher' = [watcher EXCEPT ![j] = w] /\ job' = [job EXCEPT ![j] = job[j]] /\ job' = job
    BY <1>3 DEF Settle, JobsInv, JobsTyped
  <2>2. w \in Watching /\ w.child = watcher[j].child /\ w.doing = "over" /\ w.cancelled = watcher[j].cancelled
    BY <1>1 DEF Watching
  <2> HIDE DEF w
  <2>3. watcher'[j] = w
    BY <2>1 DEF JobsInv, JobsTyped
  <2>4. job[j].status = "gone" /\ owner = "cleared"
    BY <1>1, <1>3 DEF HasEntry, JobFits, WatcherFits, Final
  <2>5. WatcherFits(j)'
    BY <1>1, <2>1, <2>2, <2>3, <2>4 DEF JobFits, WatcherFits, Final
  <2>6. ToldFits(j)'
    BY <1>1, <2>2, <2>3, <2>4 DEF JobFits, ToldFits, Final
  <2>7. QED
    BY <1>1, <2>1, <2>2, <2>5, <2>6, WatcherSteps
<1>4. QED
  BY <1>2, <1>3

(* The end is logged, then told to the owner. *)
LEMMA NoticesKeep == ASSUME JobsInv, NEW j \in JobIds, NoticeLogged(j) \/ NoticePushed(j) PROVE JobsInv'
<1>1. UNCHANGED <<owner, job, outputVars>> /\ job' = [job EXCEPT ![j] = job[j]]
      /\ watcher[j] \in Watching /\ job[j] \in JobEntry /\ JobFits(j) /\ rows \in [JobIds -> Nat] /\ notes \in [JobIds -> Nat]
  BY DEF NoticeLogged, NoticePushed, JobsInv, JobsTyped
<1>2. CASE NoticeLogged(j)
  <2> DEFINE w == [watcher[j] EXCEPT !.doing = "push"]
  <2>1. /\ watcher' = [watcher EXCEPT ![j] = w] /\ watcher[j].doing = "log" /\ notes' = notes
        /\ rows' = IF owner = "live" THEN [rows EXCEPT ![j] = @ + 1] ELSE rows
    BY <1>2 DEF NoticeLogged, JobsInv, JobsTyped
  <2>2. w \in Watching /\ w.child = watcher[j].child /\ w.doing = "push" /\ w.cancelled = watcher[j].cancelled
    BY <1>1 DEF Watching
  <2> HIDE DEF w
  <2>3. watcher'[j] = w
    BY <2>1 DEF JobsInv, JobsTyped
  <2>4. rows[j] = 0 /\ notes[j] = 0
    BY <1>1, <2>1 DEF JobFits, ToldFits
  <2>5. /\ rows' \in [JobIds -> Nat] /\ \A i \in JobIds \ {j} : rows'[i] = rows[i]
        /\ owner = "live" => rows'[j] = 1
    BY <1>1, <2>1, <2>4
  <2>6. WatcherFits(j)'
    BY <1>1, <2>1, <2>2, <2>3 DEF JobFits, WatcherFits, Final
  <2>7. ToldFits(j)'
    BY <1>1, <2>1, <2>2, <2>3, <2>4, <2>5 DEF ToldFits
  <2>8. QED
    BY <1>1, <2>1, <2>2, <2>5, <2>6, <2>7, WatcherSteps
<1>3. CASE NoticePushed(j)
  <2> DEFINE w == [watcher[j] EXCEPT !.doing = "over"]
  <2>1. /\ watcher' = [watcher EXCEPT ![j] = w] /\ watcher[j].doing = "push" /\ rows' = rows
        /\ notes' = [notes EXCEPT ![j] = @ + 1]
    BY <1>3 DEF NoticePushed, JobsInv, JobsTyped
  <2>2. w \in Watching /\ w.child = watcher[j].child /\ w.doing = "over" /\ w.cancelled = watcher[j].cancelled
    BY <1>1 DEF Watching
  <2> HIDE DEF w
  <2>3. watcher'[j] = w
    BY <2>1 DEF JobsInv, JobsTyped
  <2>4. notes[j] = 0 /\ (owner = "live" => rows[j] = 1)
    BY <1>1, <2>1 DEF JobFits, ToldFits
  <2>5. notes' \in [JobIds -> Nat] /\ notes'[j] = 1 /\ \A i \in JobIds \ {j} : notes'[i] = notes[i]
    BY <1>1, <2>1, <2>4
  <2>6. WatcherFits(j)'
    BY <1>1, <2>1, <2>2, <2>3 DEF JobFits, WatcherFits, Final
  <2>7. ToldFits(j)'
    BY <1>1, <2>1, <2>2, <2>3, <2>4, <2>5 DEF ToldFits
  <2>8. QED
    BY <1>1, <2>1, <2>2, <2>5, <2>6, <2>7, WatcherSteps
<1>4. QED
  BY <1>2, <1>3

(* The owning session is removed, or its jobs cleared. *)
LEMMA OwnerKeeps == ASSUME JobsInv, DeleteOwner \/ ClearJobs PROVE JobsInv'
<1> USE DEF JobsInv
<1>1. CASE DeleteOwner
  <2>1. owner' = "removed" /\ owner = "live" /\ notes' = [j \in JobIds |-> 0] /\ UNCHANGED <<job, watcher, rows, spilled, refusedBy, handed, admitted, again>>
    BY <1>1 DEF DeleteOwner, outputVars
  <2>2. JobsTyped'
    BY <2>1 DEF JobsTyped
  <2>3. ASSUME NEW j \in JobIds PROVE JobFits(j)'
    <3>1. JobFits(j) /\ notes'[j] = 0
      BY <2>1
    <3>2. WatcherFits(j)'
      BY <2>1, <3>1 DEF JobFits, WatcherFits
    <3>3. ToldFits(j)'
      BY <2>1, <3>1 DEF JobFits, ToldFits
    <3>4. QED
      BY <2>1, <3>1, <3>2, <3>3, OutputLeft DEF JobFits
  <2>4. QED
    BY <2>1, <2>2, <2>3
<1>2. CASE ClearJobs
  <2>1. /\ owner' = "cleared" /\ owner = "removed" /\ UNCHANGED <<rows, notes, spilled, refusedBy, handed, admitted, again>>
        /\ job' = [j \in JobIds |-> IF HasEntry(j) THEN [job[j] EXCEPT !.status = "gone"] ELSE job[j]]
        /\ watcher' = [j \in JobIds |-> IF HasEntry(j) THEN [watcher[j] EXCEPT !.cancelled = TRUE] ELSE watcher[j]]
    BY <1>2 DEF ClearJobs, outputVars
  <2>2. ASSUME NEW j \in JobIds
        PROVE  /\ job'[j] \in JobEntry /\ watcher'[j] \in Watching
               /\ job'[j].produced = job[j].produced /\ job'[j].start = job[j].start /\ job'[j].mark = job[j].mark
               /\ watcher'[j].child = watcher[j].child /\ watcher'[j].doing = watcher[j].doing
               /\ \/ HasEntry(j) /\ job'[j].status = "gone" /\ watcher'[j].cancelled = TRUE
                  \/ ~HasEntry(j) /\ job'[j] = job[j] /\ watcher'[j] = watcher[j]
    <3>1. job[j] \in JobEntry /\ watcher[j] \in Watching
      BY DEF JobsTyped
    <3>2. CASE HasEntry(j)
      <4>1. job'[j] = [job[j] EXCEPT !.status = "gone"] /\ watcher'[j] = [watcher[j] EXCEPT !.cancelled = TRUE]
        BY <2>1, <3>2
      <4>2. /\ job'[j] \in JobEntry /\ job'[j].status = "gone"
            /\ job'[j].produced = job[j].produced /\ job'[j].start = job[j].start /\ job'[j].mark = job[j].mark
        BY <3>1, <4>1 DEF JobEntry
      <4>3. /\ watcher'[j] \in Watching /\ watcher'[j].cancelled = TRUE
            /\ watcher'[j].child = watcher[j].child /\ watcher'[j].doing = watcher[j].doing
        BY <3>1, <4>1 DEF Watching
      <4>4. QED
        BY <3>2, <4>2, <4>3
    <3>3. CASE ~HasEntry(j)
      BY <2>1, <3>1, <3>3
    <3>4. QED
      BY <3>2, <3>3
  <2>3. JobsTyped'
    BY <2>1, <2>2 DEF JobsTyped
  <2>4. ASSUME NEW j \in JobIds PROVE JobFits(j)'
    <3>1. JobFits(j)
      OBVIOUS
    <3>2. WatcherFits(j)'
      BY <2>1, <2>2, <3>1 DEF JobFits, WatcherFits, Final, HasEntry
    <3>3. ToldFits(j)'
      BY <2>1, <2>2, <3>1 DEF JobFits, ToldFits
    <3>4. QED
      BY <2>1, <2>2, <3>1, <3>2, <3>3, OutputLeft DEF JobFits
  <2>5. QED
    BY <2>1, <2>3, <2>4
<1>3. QED
  BY <1>1, <1>2

(* A step that only moves one job's output. *)
LEMMA OutputSteps ==
    ASSUME JobsInv, NEW j \in JobIds, NEW e \in JobEntry, job' = [job EXCEPT ![j] = e], e.status = job[j].status,
           UNCHANGED <<owner, watcher, rows, notes, again>>,
           spilled' \in [JobIds -> SUBSET Nat], refusedBy' \in [JobIds -> SUBSET Nat],
           handed' \in [JobIds -> SUBSET Nat], admitted' \in [JobIds -> SUBSET Nat],
           \A i \in JobIds \ {j} : /\ spilled'[i] = spilled[i] /\ refusedBy'[i] = refusedBy[i]
                                   /\ handed'[i] = handed[i] /\ admitted'[i] = admitted[i],
           OutputFits(j)'
    PROVE  JobsInv'
<1> USE DEF JobsInv
<1>1. JobsTyped'
  BY DEF JobsTyped
<1>2. job'[j] = e /\ JobFits(j)
  BY DEF JobsTyped
<1>3. WatcherFits(j)'
  BY <1>2 DEF JobFits, WatcherFits
<1>4. ToldFits(j)'
  BY <1>2 DEF JobFits, ToldFits
<1>5. JobFits(j)'
  BY <1>3, <1>4 DEF JobFits
<1>6. ASSUME NEW i \in JobIds \ {j} PROVE JobFits(i)'
  <2>1. job'[i] = job[i] /\ watcher'[i] = watcher[i]
    BY DEF JobsTyped
  <2>2. QED
    BY <2>1, JobLeft
<1>7. QED
  BY <1>1, <1>5, <1>6

(* Output arrives: held, spilled or reported as dropped. *)
LEMMA AppendKeeps == ASSUME JobsInv, NEW j \in JobIds, NEW diskTakes \in BOOLEAN, AppendOutput(j, diskTakes) PROVE JobsInv'
<1> DEFINE e == [job[j] EXCEPT !.produced = @ + 1]
           overflow == e.produced - e.start > OutputCap
           f == [e EXCEPT !.start = @ + 1]
<1>1. /\ job' = [job EXCEPT ![j] = IF overflow THEN f ELSE e]
      /\ spilled' = IF overflow /\ diskTakes THEN [spilled EXCEPT ![j] = @ \cup {e.start + 1}] ELSE spilled
      /\ refusedBy' = IF overflow /\ ~diskTakes THEN [refusedBy EXCEPT ![j] = @ \cup {e.start + 1}] ELSE refusedBy
      /\ UNCHANGED <<owner, watcher, rows, notes, handed, admitted, again>>
  BY DEF AppendOutput
<1>2. /\ job[j] \in JobEntry /\ OutputFits(j)
      /\ spilled \in [JobIds -> SUBSET Nat] /\ refusedBy \in [JobIds -> SUBSET Nat]
      /\ handed \in [JobIds -> SUBSET Nat] /\ admitted \in [JobIds -> SUBSET Nat] /\ job \in [JobIds -> JobEntry]
  BY DEF JobsInv, JobsTyped, JobFits
<1>3. /\ e \in JobEntry /\ e.status = job[j].status /\ e.produced = job[j].produced + 1
      /\ e.start = job[j].start /\ e.mark = job[j].mark
  BY <1>2 DEF JobEntry
<1> HIDE DEF e
<1>4. /\ f \in JobEntry /\ f.status = job[j].status /\ f.produced = job[j].produced + 1
      /\ f.start = job[j].start + 1 /\ f.mark = job[j].mark
  BY <1>3 DEF JobEntry
<1>5. job[j].produced \in Nat /\ job[j].start \in Nat /\ job[j].mark \in Nat
  BY <1>2 DEF JobEntry
<1> HIDE DEF overflow, f
<1>6. CASE overflow
  <2>1. job' = [job EXCEPT ![j] = f] /\ job'[j] = f
    BY <1>1, <1>2, <1>6
  <2>2. spilled' \in [JobIds -> SUBSET Nat] /\ refusedBy' \in [JobIds -> SUBSET Nat]
    BY <1>1, <1>2, <1>3, <1>5
  <2>3. \A i \in JobIds \ {j} : spilled'[i] = spilled[i] /\ refusedBy'[i] = refusedBy[i]
    BY <1>1, <1>2
  <2>4. spilled'[j] \cup refusedBy'[j] = spilled[j] \cup refusedBy[j] \cup {job[j].start + 1}
    <3>1. CASE diskTakes
      <4>1. spilled'[j] = spilled[j] \cup {e.start + 1} /\ refusedBy' = refusedBy
        BY <1>1, <1>2, <1>6, <3>1
      <4>2. QED
        BY <4>1, <1>3
    <3>2. CASE ~diskTakes
      <4>1. refusedBy'[j] = refusedBy[j] \cup {e.start + 1} /\ spilled' = spilled
        BY <1>1, <1>2, <1>6, <3>2
      <4>2. QED
        BY <4>1, <1>3
    <3>3. QED
      BY <3>1, <3>2
  <2>5. OutputFits(j)'
    <3>1. ASSUME NEW b \in 1 .. job[j].start + 1 PROVE b \in spilled'[j] \cup refusedBy'[j]
      <4>1. b \in 1 .. job[j].start \/ b = job[j].start + 1
        BY <1>5
      <4>2. QED
        BY <1>2, <2>4, <4>1 DEF OutputFits
    <3>2. handed' = handed /\ admitted' = admitted
      BY <1>1
    <3>3. job'[j].start <= job'[j].produced /\ job'[j].mark <= job'[j].produced
      BY <1>2, <1>4, <1>5, <2>1 DEF OutputFits
    <3>4. \A b \in admitted[j] : b <= job'[j].mark /\ b <= job'[j].start /\ b \notin handed[j]
      BY <1>2, <1>4, <1>5, <2>1 DEF OutputFits
    <3>5. QED
      BY <1>2, <1>4, <2>1, <3>1, <3>2, <3>3, <3>4 DEF OutputFits
  <2>6. QED
    BY <1>1, <1>2, <1>4, <2>1, <2>2, <2>3, <2>5, OutputSteps
<1>7. CASE ~overflow
  <2>1. job' = [job EXCEPT ![j] = e] /\ job'[j] = e /\ spilled' = spilled /\ refusedBy' = refusedBy
    BY <1>1, <1>2, <1>7
  <2>2. OutputFits(j)'
    BY <1>1, <1>2, <1>3, <1>5, <2>1 DEF OutputFits
  <2>3. QED
    BY <1>1, <1>2, <1>3, <2>1, <2>2, OutputSteps
<1>8. QED
  BY <1>6, <1>7

(* Output is read. *)
LEMMA ReadKeeps == ASSUME JobsInv, NEW j \in JobIds, ReadOutput(j) PROVE JobsInv'
<1> DEFINE text == UnreadOutput(j)
           window == IF Cardinality(text) <= ReadHead + ReadTail THEN text
                     ELSE {b \in text : b <= job[j].produced - Cardinality(text) + ReadHead \/ b > job[j].produced - ReadTail}
           e == [job[j] EXCEPT !.mark = @ + Cardinality(FromMark(j))]
<1>1. /\ job' = [job EXCEPT ![j].mark = @ + Cardinality(FromMark(j))]
      /\ again' = again \cup {<<j, b>> : b \in window \cap handed[j]}
      /\ handed' = [handed EXCEPT ![j] = @ \cup window]
      /\ admitted' = [admitted EXCEPT ![j] = @ \cup (FromMark(j) \ text)]
      /\ UNCHANGED <<owner, watcher, spilled, refusedBy, rows, notes>>
  BY DEF ReadOutput
<1>2. /\ job[j] \in JobEntry /\ OutputFits(j) /\ again = {}
      /\ spilled \in [JobIds -> SUBSET Nat] /\ refusedBy \in [JobIds -> SUBSET Nat]
      /\ handed \in [JobIds -> SUBSET Nat] /\ admitted \in [JobIds -> SUBSET Nat] /\ job \in [JobIds -> JobEntry]
  BY DEF JobsInv, JobsTyped, JobFits
<1>3. job[j].produced \in Nat /\ job[j].start \in Nat /\ job[j].mark \in Nat /\ job[j].mark <= job[j].produced
  BY <1>2 DEF JobEntry, OutputFits
<1>4. window \subseteq text
  OBVIOUS
<1>5. text \subseteq FromMark(j) /\ \A b \in text : b > job[j].start
  BY DEF UnreadOutput
<1>6. FromMark(j) \subseteq Nat /\ \A b \in FromMark(j) : job[j].mark < b /\ b <= job[j].produced
  BY <1>3 DEF FromMark
<1>7. \A b \in FromMark(j) \ text : b <= job[j].start
  BY <1>3, <1>6 DEF UnreadOutput
<1> HIDE DEF window, text
<1>8. job[j].mark + Cardinality(FromMark(j)) = job[j].produced
  <2>1. Cardinality(FromMark(j)) = job[j].produced - job[j].mark
    <3>1. job[j].mark + 1 \in Int /\ job[j].produced \in Int
      BY <1>3
    <3>2. Cardinality(FromMark(j)) = IF job[j].mark + 1 > job[j].produced THEN 0 ELSE job[j].produced - (job[j].mark + 1) + 1
      BY <3>1, FS_Interval DEF FromMark
    <3>3. QED
      BY <1>3, <3>2
  <2>2. QED
    BY <1>3, <2>1
<1>9. /\ e \in JobEntry /\ e.status = job[j].status /\ e.produced = job[j].produced
      /\ e.start = job[j].start /\ e.mark = job[j].produced
  BY <1>2, <1>3, <1>8 DEF JobEntry
<1>10. job' = [job EXCEPT ![j] = e]
  BY <1>1, <1>2
<1> HIDE DEF e
<1>11. job'[j] = e /\ handed'[j] = handed[j] \cup window /\ admitted'[j] = admitted[j] \cup (FromMark(j) \ text)
  BY <1>1, <1>2, <1>10
<1>12. again' = again
  <2>1. window \cap handed[j] = {}
    <3>1. SUFFICES ASSUME NEW b \in window, b \in handed[j] PROVE FALSE
      OBVIOUS
    <3>2. b \in Nat /\ b > job[j].mark /\ b <= job[j].mark
      BY <1>2, <1>4, <1>5, <1>6, <3>1 DEF OutputFits
    <3>3. QED
      BY <1>3, <3>2
  <2>2. QED
    BY <1>1, <1>2, <2>1
<1>13. handed' \in [JobIds -> SUBSET Nat] /\ admitted' \in [JobIds -> SUBSET Nat]
  BY <1>1, <1>2, <1>4, <1>5, <1>6
<1>14. OutputFits(j)'
  <2>1. ASSUME NEW b \in handed'[j] PROVE b <= job'[j].mark
    <3>1. b \in Nat /\ (b <= job[j].mark \/ b <= job[j].produced)
      BY <1>2, <1>4, <1>5, <1>6, <1>11 DEF OutputFits
    <3>2. QED
      BY <1>3, <1>9, <1>11, <3>1
  <2>2. ASSUME NEW b \in admitted'[j] PROVE b <= job'[j].mark /\ b <= job'[j].start /\ b \notin handed'[j]
    <3>1. CASE b \in admitted[j]
      <4>1. b \in Nat /\ b <= job[j].mark /\ b <= job[j].start /\ b \notin handed[j]
        BY <1>2, <3>1 DEF OutputFits
      <4>2. b \notin window
        BY <1>3, <1>4, <1>5, <1>6, <4>1
      <4>3. b <= job[j].produced
        BY <1>3, <4>1
      <4>4. QED
        BY <1>9, <1>11, <4>1, <4>2, <4>3
    <3>2. CASE b \in FromMark(j) \ text
      <4>1. b \in Nat /\ b > job[j].mark /\ b <= job[j].produced /\ b <= job[j].start /\ b \notin window
        BY <1>4, <1>6, <1>7, <3>2
      <4>2. b \notin handed[j]
        BY <1>2, <1>3, <4>1 DEF OutputFits
      <4>3. QED
        BY <1>9, <1>11, <4>1, <4>2
    <3>3. QED
      BY <1>11, <3>1, <3>2
  <2>3. \A b \in 1 .. job'[j].start : b \in spilled'[j] \cup refusedBy'[j]
    BY <1>1, <1>2, <1>9, <1>11 DEF OutputFits
  <2>4. job'[j].start <= job'[j].produced /\ job'[j].mark <= job'[j].produced
    BY <1>2, <1>3, <1>9, <1>11 DEF OutputFits
  <2>5. QED
    BY <2>1, <2>2, <2>3, <2>4 DEF OutputFits
<1>15. \A i \in JobIds \ {j} : handed'[i] = handed[i] /\ admitted'[i] = admitted[i]
  BY <1>1, <1>2
<1>16. QED
  BY <1>1, <1>2, <1>9, <1>10, <1>12, <1>13, <1>14, <1>15, OutputSteps

(* Every step keeps the invariant. *)
LEMMA JobsStep == JobsInv /\ [JobsNext]_jobVars => JobsInv'
<1> SUFFICES ASSUME JobsInv, [JobsNext]_jobVars PROVE JobsInv'
  OBVIOUS
<1>1. CASE UNCHANGED jobVars
  BY <1>1 DEF jobVars, JobsInv, JobsTyped, JobFits, WatcherFits, ToldFits, OutputFits
<1>2. ASSUME NEW j \in JobIds, StartShell(j) PROVE JobsInv'
  BY <1>2, StartKeeps
<1>3. ASSUME NEW j \in JobIds, ReadOutput(j) PROVE JobsInv'
  BY <1>3, ReadKeeps
<1>4. ASSUME NEW j \in JobIds, KillJob(j) PROVE JobsInv'
  BY <1>4, KillKeeps
<1>5. ASSUME NEW j \in JobIds, NEW diskTakes \in BOOLEAN, AppendOutput(j, diskTakes) PROVE JobsInv'
  BY <1>5, AppendKeeps
<1>6. ASSUME NEW j \in JobIds, WatcherKills(j) PROVE JobsInv'
  BY <1>6, ChildDies DEF WatcherKills, Final
<1>7. ASSUME NEW j \in JobIds, ChildEnds(j, "exited") \/ ChildEnds(j, "failed") PROVE JobsInv'
  BY <1>7, ChildDies DEF ChildEnds, Final
<1>8. ASSUME NEW j \in JobIds, Settle(j) PROVE JobsInv'
  BY <1>8, SettleKeeps
<1>9. ASSUME NEW j \in JobIds, NoticeLogged(j) \/ NoticePushed(j) PROVE JobsInv'
  BY <1>9, NoticesKeep
<1>10. CASE DeleteOwner \/ ClearJobs
  BY <1>10, OwnerKeeps
<1>11. QED
  BY <1>1, <1>2, <1>3, <1>4, <1>5, <1>6, <1>7, <1>8, <1>9, <1>10 DEF JobsNext

(* The invariant is strong enough. *)
LEMMA JobsFollow == JobsInv => EndsAreTold /\ OutputAccounted
<1> SUFFICES ASSUME JobsInv PROVE EndsAreTold /\ OutputAccounted
  OBVIOUS
<1>1. EndsAreTold
  <2> SUFFICES ASSUME NEW j \in JobIds
               PROVE  /\ notes[j] <= 1
                      /\ watcher[j].doing = "over" /\ owner = "live" => notes[j] = 1 /\ rows[j] = 1
                      /\ notes[j] = 1 \/ job[j].status \in Final => watcher[j].child = "dead"
                      /\ job[j].status = "gone" => watcher[j].cancelled \/ watcher[j].child = "dead"
    BY DEF EndsAreTold
  <2>1. JobFits(j)
    BY DEF JobsInv
  <2>2. QED
    BY <2>1 DEF JobFits, WatcherFits, ToldFits, Final
<1>2. OutputAccounted
  <2>1. ASSUME NEW j \in JobIds, NEW b \in 1..ByteBound
        PROVE  /\ b <= job[j].start => b \in spilled[j] \cup refusedBy[j]
               /\ b \in admitted[j] => b \notin handed[j] /\ b <= job[j].start
    <3>1. OutputFits(j) /\ job[j].start \in Nat
      BY DEF JobsInv, JobFits, JobsTyped, JobEntry
    <3>2. b <= job[j].start => b \in 1 .. job[j].start
      BY <3>1
    <3>3. QED
      BY <3>1, <3>2 DEF OutputFits
  <2>2. QED
    BY <2>1 DEF OutputAccounted, JobsInv
<1>3. QED
  BY <1>1, <1>2

(* The end of a job is told to a living owner, once, and its output is     *)
(* handed over, spilled or reported as dropped (jobs.rs).                  *)
THEOREM JobsKept == JobsSpec => [](EndsAreTold /\ OutputAccounted)
<1>1. JobsSpec => []JobsInv
  BY JobsInitially, JobsStep, PTL DEF JobsSpec
<1>2. QED
  BY <1>1, JobsFollow, PTL

-----------------------------------------------------------------------------
(* Delegated runs. *)

(* The states that close a row, and the rows. *)
Shut == {"done", "failed"}
EdgeRow == (Nat \X (Mates \cup {0})) \X {"started", "done", "failed"}

(* The rows of a run that is under way in its round r, with the members C  *)
(* still out: what opened was closed but for those and the run itself.     *)
RowsOut(rs, r, C) ==
    /\ rs \in Seq(EdgeRow)
    /\ Len(rs) > 0 /\ rs[1] = <<RunRow, "started">>
    /\ \A k \in 1 .. Len(rs) : rs[k][1] = RunRow => rs[k][2] = "started"
    /\ \A k \in 1 .. Len(rs) : rs[k][1] # RunRow => rs[k][1][1] \in 1 .. r
    /\ \A j, k \in 1 .. Len(rs) : rs[j][2] \in Shut /\ rs[k][2] \in Shut /\ rs[j][1] = rs[k][1] => j = k
    /\ \A k \in 1 .. Len(rs) : rs[k][2] \in Shut => \E j \in 1 .. k - 1 : rs[j] = <<rs[k][1], "started">>
    /\ \A k \in 1 .. Len(rs) : rs[k][1] # RunRow =>
          \/ \E j \in 1 .. Len(rs) : rs[j][1] = rs[k][1] /\ rs[j][2] \in Shut
          \/ \E i \in C : rs[k][1] = <<r, i>>
    /\ \A i \in C : \E k \in 1 .. Len(rs) : rs[k] = <<<<r, i>>, "started">>
    /\ \A i \in C : \A k \in 1 .. Len(rs) : rs[k][1] = <<r, i>> => rs[k][2] = "started"

(* The rows of a run that closed: its own close is the last of them. *)
RowsIn(rs) ==
    /\ rs \in Seq(EdgeRow)
    /\ \A j, k \in 1 .. Len(rs) : rs[j][2] \in Shut /\ rs[k][2] \in Shut /\ rs[j][1] = rs[k][1] => j = k
    /\ \A k \in 1 .. Len(rs) : rs[k][2] \in Shut => \E j \in 1 .. k - 1 : rs[j] = <<rs[k][1], "started">>
    /\ \A k \in 1 .. Len(rs) : \E j \in 1 .. Len(rs) : rs[j][1] = rs[k][1] /\ rs[j][2] \in Shut
    /\ \A k \in 1 .. Len(rs) : rs[k][1] = RunRow /\ rs[k][2] \in Shut => k = Len(rs)
    /\ \E k \in 1 .. Len(rs) : rs[k][1] = RunRow /\ rs[k][2] \in Shut

(* The rows of the members in S, each in the state the report gives it. *)
ListingOf(f, r, S, g) ==
    /\ f \in Seq(EdgeRow)
    /\ \A k \in 1 .. Len(f) : \E i \in S : f[k] = <<<<r, i>>, g[i]>>
    /\ \A i \in S : \E k \in 1 .. Len(f) : f[k] = <<<<r, i>>, g[i]>>
    /\ \A j, k \in 1 .. Len(f) : f[j][1] = f[k][1] => j = k
LEMMA RowsListed ==
    ASSUME NEW r \in Nat, NEW S \in SUBSET Mates, NEW g, NEW T, RowsOf(T, r, S, g)
    PROVE  ListingOf(SetToSeq(T), r, S, g)
<1>1. IsFiniteSet(S)
  BY DelegAssumption, FS_Subset
<1> USE DEF RowsOf
<1> DEFINE h == [i \in S |-> <<<<r, i>>, g[i]>>]
<1>2. h \in Surjection(S, T)
  BY DEF Surjection
<1>3. IsFiniteSet(T)
  BY <1>1, <1>2, FS_Surjection
<1> DEFINE f == SetToSeq(T)
<1>4. /\ f \in Seq(T)
      /\ \A x \in T : \E k \in 1 .. Len(f) : f[k] = x
      /\ \A j, k \in 1 .. Len(f) : f[j] = f[k] => j = k
  BY <1>3, SetListed
<1> HIDE DEF f
<1>5. T \subseteq EdgeRow
  BY DEF EdgeRow
<1>6. f \in Seq(EdgeRow)
  BY <1>4, <1>5
<1>7. \A k \in 1 .. Len(f) : \E i \in S : f[k] = <<<<r, i>>, g[i]>>
  BY <1>4, SMTT(30)
<1>8. \A i \in S : \E k \in 1 .. Len(f) : f[k] = <<<<r, i>>, g[i]>>
  BY <1>4
<1>9. ASSUME NEW j \in 1 .. Len(f), NEW k \in 1 .. Len(f), f[j][1] = f[k][1] PROVE j = k
  <2>1. PICK a \in S : f[j] = <<<<r, a>>, g[a]>>
    BY <1>7
  <2>2. PICK b \in S : f[k] = <<<<r, b>>, g[b]>>
    BY <1>7
  <2>3. a = b
    BY <1>9, <2>1, <2>2
  <2>4. QED
    BY <1>4, <2>1, <2>2, <2>3
<1>10. QED
  BY <1>6, <1>7, <1>8, <1>9 DEF f, ListingOf

(* A round opens: its members' rows follow. *)
LEMMA RowsOpened ==
    ASSUME NEW rs, NEW r \in Nat, NEW S \in SUBSET Mates, NEW B \in Seq(EdgeRow), RowsOut(rs, r, {}),
           \A k \in 1 .. Len(B) : \E i \in S : B[k] = <<<<r + 1, i>>, "started">>,
           \A i \in S : \E k \in 1 .. Len(B) : B[k] = <<<<r + 1, i>>, "started">>
    PROVE  RowsOut(rs \o B, r + 1, S)
<1> DEFINE t == rs \o B
           n == Len(rs)
<1>1. rs \in Seq(EdgeRow) /\ n \in Nat /\ Len(B) \in Nat /\ n > 0
  BY DEF RowsOut
<1>2. /\ t \in Seq(EdgeRow) /\ Len(t) = n + Len(B)
      /\ \A k \in 1 .. n : t[k] = rs[k] /\ k \in 1 .. Len(t)
      /\ \A k \in 1 .. Len(B) : t[n + k] = B[k] /\ n + k \in 1 .. Len(t)
      /\ \A k \in 1 .. Len(t) : k \in 1 .. n \/ (k - n \in 1 .. Len(B) /\ t[k] = B[k - n] /\ k > n)
  BY <1>1, ConcatSplit
<1> HIDE DEF t
<1>3. ASSUME NEW k \in 1 .. Len(t)
      PROVE  \/ k \in 1 .. n /\ t[k] = rs[k]
             \/ \E i \in S : t[k] = <<<<r + 1, i>>, "started">>
  <2>1. (k \in 1 .. n /\ t[k] = rs[k]) \/ (k - n \in 1 .. Len(B) /\ t[k] = B[k - n])
    BY <1>2
  <2>2. ASSUME k - n \in 1 .. Len(B), t[k] = B[k - n]
        PROVE  \E i \in S : t[k] = <<<<r + 1, i>>, "started">>
    <3> DEFINE l == k - n
    <3>1. l \in 1 .. Len(B) /\ t[k] = B[l]
      BY <2>2
    <3> HIDE DEF l
    <3>2. QED
      BY <3>1
  <2>3. QED
    BY <2>1, <2>2
<1>4. \A i : <<r + 1, i>> # RunRow
  <2>1. r + 1 # 0
    OBVIOUS
  <2>2. QED
    BY <2>1 DEF RunRow
<1>5. \A k \in 1 .. n : rs[k][1][1] # r + 1
  <2> SUFFICES ASSUME NEW k \in 1 .. n PROVE rs[k][1][1] # r + 1
    OBVIOUS
  <2>1. CASE rs[k][1] = RunRow
    BY <2>1 DEF RunRow
  <2>2. CASE rs[k][1] # RunRow
    BY <2>2 DEF RowsOut
  <2>3. QED
    BY <2>1, <2>2
<1>6. t[1] = <<RunRow, "started">> /\ Len(t) > 0
  <2>1. 1 \in 1 .. n /\ rs[1] = <<RunRow, "started">>
    BY <1>1 DEF RowsOut
  <2>2. t[1] = rs[1] /\ 1 \in 1 .. Len(t)
    BY <1>2, <2>1
  <2>3. QED
    BY <2>1, <2>2
<1>7. \A k \in 1 .. Len(t) : t[k][1] = RunRow => t[k][2] = "started"
  <2> SUFFICES ASSUME NEW k \in 1 .. Len(t), t[k][1] = RunRow PROVE t[k][2] = "started"
    OBVIOUS
  <2>1. k \in 1 .. n /\ t[k] = rs[k]
    BY <1>3, <1>4
  <2>2. QED
    BY <2>1 DEF RowsOut
<1>8. \A k \in 1 .. Len(t) : t[k][1] # RunRow => t[k][1][1] \in 1 .. r + 1
  <2> SUFFICES ASSUME NEW k \in 1 .. Len(t), t[k][1] # RunRow PROVE t[k][1][1] \in 1 .. r + 1
    OBVIOUS
  <2>1. CASE k \in 1 .. n /\ t[k] = rs[k]
    <3>1. rs[k][1][1] \in 1 .. r
      BY <2>1 DEF RowsOut
    <3>2. QED
      BY <2>1, <3>1
  <2>2. CASE \E i \in S : t[k] = <<<<r + 1, i>>, "started">>
    <3>1. t[k][1][1] = r + 1
      BY <2>2
    <3>2. QED
      BY <3>1
  <2>3. QED
    BY <1>3, <2>1, <2>2
<1>9. \A k \in 1 .. Len(t) : t[k][2] \in Shut => k \in 1 .. n /\ t[k] = rs[k]
  BY <1>3 DEF Shut
<1>10. \A j, k \in 1 .. Len(t) : t[j][2] \in Shut /\ t[k][2] \in Shut /\ t[j][1] = t[k][1] => j = k
  BY <1>9 DEF RowsOut
<1>11. \A k \in 1 .. Len(t) : t[k][2] \in Shut => \E j \in 1 .. k - 1 : t[j] = <<t[k][1], "started">>
  <2> SUFFICES ASSUME NEW k \in 1 .. Len(t), t[k][2] \in Shut PROVE \E j \in 1 .. k - 1 : t[j] = <<t[k][1], "started">>
    OBVIOUS
  <2>1. k \in 1 .. n /\ t[k] = rs[k]
    BY <1>9
  <2>2. PICK j \in 1 .. k - 1 : rs[j] = <<rs[k][1], "started">>
    BY <2>1 DEF RowsOut
  <2>3. j \in 1 .. n
    BY <1>1, <2>1
  <2>4. QED
    BY <1>2, <2>1, <2>2, <2>3
<1>12. \A k \in 1 .. Len(t) : t[k][1] # RunRow =>
          \/ \E j \in 1 .. Len(t) : t[j][1] = t[k][1] /\ t[j][2] \in Shut
          \/ \E i \in S : t[k][1] = <<r + 1, i>>
  <2> SUFFICES ASSUME NEW k \in 1 .. Len(t), t[k][1] # RunRow
               PROVE  \/ \E j \in 1 .. Len(t) : t[j][1] = t[k][1] /\ t[j][2] \in Shut
                      \/ \E i \in S : t[k][1] = <<r + 1, i>>
    OBVIOUS
  <2>1. CASE k \in 1 .. n /\ t[k] = rs[k]
    <3>1. PICK j \in 1 .. n : rs[j][1] = rs[k][1] /\ rs[j][2] \in Shut
      BY <2>1 DEF RowsOut
    <3>2. QED
      BY <1>2, <2>1, <3>1
  <2>2. CASE \E i \in S : t[k] = <<<<r + 1, i>>, "started">>
    BY <2>2
  <2>3. QED
    BY <1>3, <2>1, <2>2
<1>13. \A i \in S : \E k \in 1 .. Len(t) : t[k] = <<<<r + 1, i>>, "started">>
  <2> SUFFICES ASSUME NEW i \in S PROVE \E k \in 1 .. Len(t) : t[k] = <<<<r + 1, i>>, "started">>
    OBVIOUS
  <2>1. PICK k \in 1 .. Len(B) : B[k] = <<<<r + 1, i>>, "started">>
    OBVIOUS
  <2>2. n + k \in 1 .. Len(t) /\ t[n + k] = B[k]
    BY <1>2
  <2>3. QED
    BY <2>1, <2>2
<1>14. \A i \in S : \A k \in 1 .. Len(t) : t[k][1] = <<r + 1, i>> => t[k][2] = "started"
  <2> SUFFICES ASSUME NEW i \in S, NEW k \in 1 .. Len(t), t[k][1] = <<r + 1, i>> PROVE t[k][2] = "started"
    OBVIOUS
  <2>1. CASE k \in 1 .. n /\ t[k] = rs[k]
    <3>1. rs[k][1][1] = r + 1
      BY <2>1
    <3>2. QED
      BY <1>5, <2>1, <3>1
  <2>2. QED
    BY <1>3, <2>1
<1>15. QED
  BY <1>2, <1>6, <1>7, <1>8, <1>10, <1>11, <1>12, <1>13, <1>14 DEF RowsOut, t

(* Members in D close their rows. *)
LEMMA RowsShut ==
    ASSUME NEW rs, NEW r \in Nat, NEW C \in SUBSET Mates, NEW D \in SUBSET C, NEW B \in Seq(EdgeRow), RowsOut(rs, r, C), r > 0,
           \A k \in 1 .. Len(B) : B[k][2] \in Shut /\ \E i \in D : B[k][1] = <<r, i>>,
           \A i \in D : \E k \in 1 .. Len(B) : B[k][1] = <<r, i>>,
           \A j, k \in 1 .. Len(B) : B[j][1] = B[k][1] => j = k
    PROVE  RowsOut(rs \o B, r, C \ D)
<1> DEFINE t == rs \o B
           n == Len(rs)
<1>1. rs \in Seq(EdgeRow) /\ n \in Nat /\ Len(B) \in Nat /\ n > 0
  BY DEF RowsOut
<1>2. /\ t \in Seq(EdgeRow) /\ Len(t) = n + Len(B)
      /\ \A k \in 1 .. n : t[k] = rs[k] /\ k \in 1 .. Len(t)
      /\ \A k \in 1 .. Len(B) : t[n + k] = B[k] /\ n + k \in 1 .. Len(t)
      /\ \A k \in 1 .. Len(t) : k \in 1 .. n \/ (k - n \in 1 .. Len(B) /\ t[k] = B[k - n] /\ k > n)
  BY <1>1, ConcatSplit
<1> HIDE DEF t
<1>3. ASSUME NEW k \in 1 .. Len(t)
      PROVE  \/ k \in 1 .. n /\ t[k] = rs[k]
             \/ k > n /\ k - n \in 1 .. Len(B) /\ t[k] = B[k - n] /\ t[k][2] \in Shut /\ \E i \in D : t[k][1] = <<r, i>>
  <2>1. (k \in 1 .. n /\ t[k] = rs[k]) \/ (k - n \in 1 .. Len(B) /\ t[k] = B[k - n] /\ k > n)
    BY <1>2
  <2>2. ASSUME k - n \in 1 .. Len(B), t[k] = B[k - n]
        PROVE  t[k][2] \in Shut /\ \E i \in D : t[k][1] = <<r, i>>
    <3> DEFINE l == k - n
    <3>1. l \in 1 .. Len(B) /\ t[k] = B[l]
      BY <2>2
    <3> HIDE DEF l
    <3>2. B[l][2] \in Shut /\ \E i \in D : B[l][1] = <<r, i>>
      BY <3>1
    <3>3. QED
      BY <3>1, <3>2
  <2>3. QED
    BY <2>1, <2>2
<1>4. \A i : <<r, i>> # RunRow
  BY DEF RunRow
<1>5. \A i \in D : i \in C /\ \A k \in 1 .. n : rs[k][1] = <<r, i>> => rs[k][2] \notin Shut
  BY DEF RowsOut, Shut
<1>6. t[1] = <<RunRow, "started">> /\ Len(t) > 0
  <2>1. 1 \in 1 .. n /\ rs[1] = <<RunRow, "started">>
    BY <1>1 DEF RowsOut
  <2>2. t[1] = rs[1] /\ 1 \in 1 .. Len(t)
    BY <1>2, <2>1
  <2>3. QED
    BY <2>1, <2>2
<1>7. \A k \in 1 .. Len(t) : t[k][1] = RunRow => t[k][2] = "started"
  <2> SUFFICES ASSUME NEW k \in 1 .. Len(t), t[k][1] = RunRow PROVE t[k][2] = "started"
    OBVIOUS
  <2>1. k \in 1 .. n /\ t[k] = rs[k]
    BY <1>3, <1>4
  <2>2. QED
    BY <2>1 DEF RowsOut
<1>8. \A k \in 1 .. Len(t) : t[k][1] # RunRow => t[k][1][1] \in 1 .. r
  <2> SUFFICES ASSUME NEW k \in 1 .. Len(t), t[k][1] # RunRow PROVE t[k][1][1] \in 1 .. r
    OBVIOUS
  <2>1. CASE k \in 1 .. n /\ t[k] = rs[k]
    BY <2>1 DEF RowsOut
  <2>2. CASE \E i \in D : t[k][1] = <<r, i>>
    <3>1. t[k][1][1] = r
      BY <2>2
    <3>2. QED
      BY <3>1
  <2>3. QED
    BY <1>3, <2>1, <2>2
<1>9. \A j, k \in 1 .. Len(t) : t[j][2] \in Shut /\ t[k][2] \in Shut /\ t[j][1] = t[k][1] => j = k
  <2> SUFFICES ASSUME NEW j \in 1 .. Len(t), NEW k \in 1 .. Len(t), t[j][2] \in Shut, t[k][2] \in Shut, t[j][1] = t[k][1]
               PROVE  j = k
    OBVIOUS
  <2>1. CASE j \in 1 .. n /\ t[j] = rs[j] /\ k \in 1 .. n /\ t[k] = rs[k]
    BY <2>1 DEF RowsOut
  <2>2. CASE k \in 1 .. n /\ t[k] = rs[k] /\ \E i \in D : t[j][1] = <<r, i>>
    <3>1. PICK i \in D : t[j][1] = <<r, i>>
      BY <2>2
    <3>2. rs[k][1] = <<r, i>> /\ rs[k][2] \in Shut
      BY <2>2, <3>1
    <3>3. QED
      BY <1>5, <2>2, <3>2
  <2>3. CASE j \in 1 .. n /\ t[j] = rs[j] /\ \E i \in D : t[k][1] = <<r, i>>
    <3>1. PICK i \in D : t[k][1] = <<r, i>>
      BY <2>3
    <3>2. rs[j][1] = <<r, i>> /\ rs[j][2] \in Shut
      BY <2>3, <3>1
    <3>3. QED
      BY <1>5, <2>3, <3>2
  <2>4. CASE j - n \in 1 .. Len(B) /\ t[j] = B[j - n] /\ k - n \in 1 .. Len(B) /\ t[k] = B[k - n]
    <3>1. j - n = k - n
      BY <2>4
    <3>2. QED
      BY <1>1, <3>1
  <2>5. QED
    BY <1>3, <2>1, <2>2, <2>3, <2>4
<1>10. \A k \in 1 .. Len(t) : t[k][2] \in Shut => \E j \in 1 .. k - 1 : t[j] = <<t[k][1], "started">>
  <2> SUFFICES ASSUME NEW k \in 1 .. Len(t), t[k][2] \in Shut PROVE \E j \in 1 .. k - 1 : t[j] = <<t[k][1], "started">>
    OBVIOUS
  <2>1. CASE k \in 1 .. n /\ t[k] = rs[k]
    <3>1. PICK j \in 1 .. k - 1 : rs[j] = <<rs[k][1], "started">>
      BY <2>1 DEF RowsOut
    <3>2. j \in 1 .. n
      BY <1>1, <2>1
    <3>3. QED
      BY <1>2, <2>1, <3>1, <3>2
  <2>2. CASE k > n /\ \E i \in D : t[k][1] = <<r, i>>
    <3>1. PICK i \in D : t[k][1] = <<r, i>>
      BY <2>2
    <3>2. PICK j \in 1 .. n : rs[j] = <<<<r, i>>, "started">>
      BY DEF RowsOut
    <3>3. j \in 1 .. k - 1
      BY <1>1, <2>2
    <3>4. QED
      BY <1>2, <3>1, <3>2, <3>3
  <2>3. QED
    BY <1>3, <2>1, <2>2
<1>11. \A i \in D : \E j \in 1 .. Len(t) : t[j][1] = <<r, i>> /\ t[j][2] \in Shut
  <2> SUFFICES ASSUME NEW i \in D PROVE \E j \in 1 .. Len(t) : t[j][1] = <<r, i>> /\ t[j][2] \in Shut
    OBVIOUS
  <2>1. PICK k \in 1 .. Len(B) : B[k][1] = <<r, i>> /\ B[k][2] \in Shut
    OBVIOUS
  <2>2. n + k \in 1 .. Len(t) /\ t[n + k] = B[k]
    BY <1>2
  <2>3. QED
    BY <2>1, <2>2
<1>12. \A k \in 1 .. Len(t) : t[k][1] # RunRow =>
          \/ \E j \in 1 .. Len(t) : t[j][1] = t[k][1] /\ t[j][2] \in Shut
          \/ \E i \in C \ D : t[k][1] = <<r, i>>
  <2> SUFFICES ASSUME NEW k \in 1 .. Len(t), t[k][1] # RunRow
               PROVE  \/ \E j \in 1 .. Len(t) : t[j][1] = t[k][1] /\ t[j][2] \in Shut
                      \/ \E i \in C \ D : t[k][1] = <<r, i>>
    OBVIOUS
  <2>1. CASE k \in 1 .. n /\ t[k] = rs[k]
    <3>1. CASE \E j \in 1 .. n : rs[j][1] = rs[k][1] /\ rs[j][2] \in Shut
      BY <1>2, <2>1, <3>1
    <3>2. CASE \E i \in C : rs[k][1] = <<r, i>>
      BY <1>11, <2>1, <3>2
    <3>3. QED
      BY <2>1, <3>1, <3>2 DEF RowsOut
  <2>2. CASE t[k][2] \in Shut
    BY <2>2
  <2>3. QED
    BY <1>3, <2>1, <2>2
<1>13. \A i \in C \ D : \E k \in 1 .. Len(t) : t[k] = <<<<r, i>>, "started">>
  <2> SUFFICES ASSUME NEW i \in C \ D PROVE \E k \in 1 .. Len(t) : t[k] = <<<<r, i>>, "started">>
    OBVIOUS
  <2>1. PICK k \in 1 .. n : rs[k] = <<<<r, i>>, "started">>
    BY DEF RowsOut
  <2>2. QED
    BY <1>2, <2>1
<1>14. \A i \in C \ D : \A k \in 1 .. Len(t) : t[k][1] = <<r, i>> => t[k][2] = "started"
  <2> SUFFICES ASSUME NEW i \in C \ D, NEW k \in 1 .. Len(t), t[k][1] = <<r, i>> PROVE t[k][2] = "started"
    OBVIOUS
  <2>1. \A q \in D : <<r, q>> # <<r, i>>
    OBVIOUS
  <2>2. k \in 1 .. n /\ t[k] = rs[k]
    BY <1>3, <2>1
  <2>3. QED
    BY <2>2 DEF RowsOut
<1>15. QED
  BY <1>2, <1>6, <1>7, <1>8, <1>9, <1>10, <1>12, <1>13, <1>14 DEF RowsOut, t

(* The run closes its own row, with no member out. *)
LEMMA RunShut ==
    ASSUME NEW rs, NEW r \in Nat, NEW state \in Shut, RowsOut(rs, r, {})
    PROVE  RowsIn(rs \o <<<<RunRow, state>>>>)
<1> DEFINE t == rs \o <<<<RunRow, state>>>>
           n == Len(rs)
<1>1. rs \in Seq(EdgeRow) /\ n \in Nat /\ n > 0 /\ <<RunRow, state>> \in EdgeRow
  BY DEF RowsOut, EdgeRow, RunRow, Shut
<1>2. /\ t \in Seq(EdgeRow) /\ Len(t) = n + 1 /\ t[n + 1] = <<RunRow, state>>
      /\ \A k \in 1 .. n : t[k] = rs[k] /\ k \in 1 .. Len(t)
      /\ \A k \in 1 .. Len(t) : k \in 1 .. n \/ k = n + 1
  BY <1>1
<1> HIDE DEF t
<1>3. \A k \in 1 .. n : rs[k][1] = RunRow => rs[k][2] \notin Shut
  BY DEF RowsOut, Shut
<1>4. \A j, k \in 1 .. Len(t) : t[j][2] \in Shut /\ t[k][2] \in Shut /\ t[j][1] = t[k][1] => j = k
  BY <1>2, <1>3, SMTT(30) DEF RowsOut
<1>5. \A k \in 1 .. Len(t) : t[k][2] \in Shut => \E j \in 1 .. k - 1 : t[j] = <<t[k][1], "started">>
  <2> SUFFICES ASSUME NEW k \in 1 .. Len(t), t[k][2] \in Shut PROVE \E j \in 1 .. k - 1 : t[j] = <<t[k][1], "started">>
    OBVIOUS
  <2>1. CASE k \in 1 .. n
    <3>1. PICK j \in 1 .. k - 1 : rs[j] = <<rs[k][1], "started">>
      BY <1>2, <2>1 DEF RowsOut
    <3>2. j \in 1 .. n
      BY <1>1, <2>1
    <3>3. QED
      BY <1>2, <2>1, <3>1, <3>2
  <2>2. CASE k = n + 1
    <3>1. 1 \in 1 .. k - 1 /\ 1 \in 1 .. n
      BY <1>1, <2>2
    <3>2. QED
      BY <1>2, <2>2, <3>1 DEF RowsOut
  <2>3. QED
    BY <1>2, <2>1, <2>2
<1>6. n + 1 \in 1 .. Len(t) /\ t[n + 1][1] = RunRow /\ t[n + 1][2] \in Shut
  BY <1>1, <1>2
<1>7. \A k \in 1 .. Len(t) : \E j \in 1 .. Len(t) : t[j][1] = t[k][1] /\ t[j][2] \in Shut
  <2> SUFFICES ASSUME NEW k \in 1 .. Len(t) PROVE \E j \in 1 .. Len(t) : t[j][1] = t[k][1] /\ t[j][2] \in Shut
    OBVIOUS
  <2>1. CASE t[k][1] = RunRow
    BY <1>6, <2>1
  <2>2. CASE t[k][1] # RunRow
    <3>1. k \in 1 .. n /\ t[k] = rs[k]
      BY <1>2, <2>2
    <3>2. PICK j \in 1 .. n : rs[j][1] = rs[k][1] /\ rs[j][2] \in Shut
      BY <2>2, <3>1 DEF RowsOut
    <3>3. QED
      BY <1>2, <3>1, <3>2
  <2>3. QED
    BY <2>1, <2>2
<1>8. \A k \in 1 .. Len(t) : t[k][1] = RunRow /\ t[k][2] \in Shut => k = Len(t)
  BY <1>2, <1>3
<1>9. QED
  BY <1>2, <1>4, <1>5, <1>6, <1>7, <1>8 DEF RowsIn, t

-----------------------------------------------------------------------------
(* What a conversation is made of. *)
CallMade == [id : Nat, ok : BOOLEAN]
Reported == [kind : {"none", "prose", "structured"}, cites : SUBSET Ids]
Conversation ==
    [at : {"off", "asks", "final", "over"}, hops : Nat, nudged : BOOLEAN, reminded : BOOLEAN, asks : Nat,
     from : Nat, calls : Seq(CallMade), shown : Seq(CallMade), report : Reported]

(* Types. *)
DelegTyped ==
    /\ skill \in Skills /\ round \in Nat /\ crew \in SUBSET Mates
    /\ conv \in [Mates -> Conversation]
    /\ trails \in [Mates -> Seq(CallMade)] /\ reports \in [Mates -> Reported]
    /\ halted \in BOOLEAN /\ delegated \in {"running", "ok", "failed"}

(* A conversation has asked n times at most: once a hop, and once each for *)
(* the correction, the reminder and the call past the budget.              *)
AskedAtMost(n, c) ==
    \E x, y, z \in {0, 1} :
        /\ n <= c.hops + x + y + z
        /\ x = 1 => c.nudged = TRUE
        /\ y = 1 => c.reminded = TRUE
        /\ z = 1 => c.at = "final"

(* The hops are within the budget, the requests within the hops. *)
AsksFit(c) == c.hops <= MaxHops /\ AskedAtMost(c.asks, c)

(* The calls on a trail, and those it will get, are in the transcript. *)
AmongShown(s, c) == \A k \in 1 .. Len(s) : \E l \in 1 .. Len(c.shown) : c.shown[l] = s[k]
(* All evidence of a child is in its transcript. *)
EvidenceFits(trail, c) == AmongShown(c.calls, c) /\ AmongShown(trail, c)

(* The rows are those of a run under way, or closed, or interrupted. *)
RowsFit ==
    /\ ~Logged => runRows = <<>>
    /\ Logged /\ delegated = "running" => RowsOut(runRows, round, crew)
    /\ Logged /\ delegated # "running" => RowsIn(runRows) \/ (halted /\ RowsOut(runRows, round, {}))
    /\ crew # {} => round > 0
    /\ skill = "ralph" => crew \subseteq {Lone}

(* The inductive invariant. *)
DelegInv ==
    /\ DelegTyped /\ RowsFit
    /\ \A i \in Mates : AsksFit(conv[i]) /\ EvidenceFits(trails[i], conv[i]) /\ (skill # "team" => trails[i] = <<>>)

(* A fresh conversation. *)
LEMMA SeedFits ==
    ASSUME NEW n \in Nat
    PROVE  /\ SeededWith(n) \in Conversation
           /\ SeededWith(n).calls = <<>> /\ SeededWith(n).shown = <<>>
           /\ SeededWith(n).hops = 0 /\ SeededWith(n).asks = 0
           /\ SeededWith(n).nudged = FALSE /\ SeededWith(n).reminded = FALSE /\ SeededWith(n).at = "off"
<1>1. NoReport \in Reported
  BY DEF NoReport, Reported
<1>2. QED
  BY <1>1 DEF SeededWith, Conversation

(* A conversation that asked nothing is within its budget. *)
LEMMA QuietFits ==
    ASSUME NEW c, c.hops = 0, c.asks = 0, c.nudged = FALSE, c.reminded = FALSE, c.at # "final"
    PROVE  AsksFit(c)
<1>1. c.asks <= c.hops + 0 + 0 + 0 /\ c.hops <= MaxHops
  BY DelegAssumption
<1>2. QED
  BY <1>1 DEF AsksFit, AskedAtMost

(* A skill was called; its run is open. *)
LEMMA DelegInitially == DelegInit => DelegInv
<1> SUFFICES ASSUME DelegInit PROVE DelegInv
  OBVIOUS
<1>1. NoReport \in Reported
  BY DEF NoReport, Reported
<1>2. DelegTyped
  <2>1. conv \in [Mates -> Conversation] /\ reports \in [Mates -> Reported]
    BY <1>1, SeedFits DEF DelegInit
  <2>2. trails \in [Mates -> Seq(CallMade)]
    BY DEF DelegInit
  <2>3. skill \in Skills /\ round \in Nat /\ crew \in SUBSET Mates /\ halted \in BOOLEAN /\ delegated \in {"running", "ok", "failed"}
    BY DEF DelegInit
  <2>4. QED
    BY <2>1, <2>2, <2>3 DEF DelegTyped
<1>3. RowsFit
  <2>1. crew = {} /\ delegated = "running" /\ round = 0 /\ halted = FALSE
    BY DEF DelegInit
  <2>2. CASE Logged
    <3> DEFINE rs == <<<<RunRow, "started">>>>
    <3>1. runRows = rs
      BY <2>2 DEF DelegInit, Logged
    <3>2. rs \in Seq(EdgeRow) /\ Len(rs) = 1 /\ rs[1] = <<RunRow, "started">>
      BY DEF EdgeRow, RunRow
    <3> HIDE DEF rs
    <3>3. \A k \in 1 .. Len(rs) : k = 1 /\ rs[k][1] = RunRow /\ rs[k][2] = "started" /\ rs[k][2] \notin Shut
      BY <3>2 DEF Shut
    <3>4. RowsOut(rs, 0, {})
      BY <3>2, <3>3 DEF RowsOut
    <3>5. QED
      BY <2>1, <2>2, <3>1, <3>4 DEF RowsFit
  <2>3. CASE ~Logged
    <3>1. runRows = <<>>
      BY <2>3 DEF DelegInit, Logged
    <3>2. QED
      BY <2>1, <2>3, <3>1 DEF RowsFit
  <2>4. QED
    BY <2>2, <2>3
<1>4. ASSUME NEW i \in Mates PROVE AsksFit(conv[i]) /\ EvidenceFits(trails[i], conv[i]) /\ trails[i] = <<>>
  <2>1. conv[i] = SeededWith(0) /\ trails[i] = <<>>
    BY DEF DelegInit
  <2>2. AsksFit(conv[i])
    BY <2>1, SeedFits, QuietFits
  <2>3. EvidenceFits(trails[i], conv[i])
    BY <2>1, SeedFits DEF EvidenceFits, AmongShown
  <2>4. QED
    BY <2>1, <2>2, <2>3
<1>5. QED
  BY <1>2, <1>3, <1>4 DEF DelegInv

(* One child's conversation moves; nothing is reported yet. *)
LEMMA ConvSteps ==
    ASSUME DelegInv, NEW i \in Mates, NEW c \in Conversation, conv' = [conv EXCEPT ![i] = c],
           UNCHANGED <<skill, round, crew, trails, reports, runRows, spent, halted, delegated>>,
           AsksFit(c), EvidenceFits(trails[i], c)
    PROVE  DelegInv'
<1> USE DEF DelegInv
<1>1. DelegTyped'
  BY DEF DelegTyped
<1>2. RowsFit'
  BY DEF RowsFit, Logged
<1>3. conv'[i] = c /\ \A j \in Mates \ {i} : conv'[j] = conv[j]
  BY DEF DelegTyped
<1>4. ASSUME NEW j \in Mates PROVE AsksFit(conv'[j]) /\ EvidenceFits(trails'[j], conv'[j]) /\ (skill' # "team" => trails'[j] = <<>>)
  BY <1>3
<1>5. QED
  BY <1>1, <1>2, <1>4 DEF AsksFit, AskedAtMost, EvidenceFits, AmongShown

(* A conversation ends and its counters with it. *)
LEMMA EndsKeeps == ASSUME DelegInv, NEW i \in Mates, NEW rep \in Reported, Ends(i, rep) PROVE DelegInv'
<1> DEFINE left == IF rep = NoReport THEN <<>> ELSE conv[i].calls
           c == [conv[i] EXCEPT !.at = "over", !.report = rep, !.hops = 0, !.nudged = FALSE, !.reminded = FALSE,
                               !.asks = 0, !.calls = left]
<1>1. conv[i] \in Conversation /\ EvidenceFits(trails[i], conv[i])
  BY DEF DelegInv, DelegTyped
<1>2. conv' = [conv EXCEPT ![i] = c]
  BY DEF Ends
<1>3. left \in Seq(CallMade) /\ (rep = NoReport => left = <<>>) /\ (rep # NoReport => left = conv[i].calls)
  BY <1>1 DEF Conversation
<1> HIDE DEF left
<1>4. /\ c \in Conversation /\ c.at = "over" /\ c.hops = 0 /\ c.nudged = FALSE /\ c.reminded = FALSE /\ c.asks = 0
      /\ c.shown = conv[i].shown /\ c.calls = left
  BY <1>1, <1>3 DEF Conversation
<1> HIDE DEF c
<1>5. AsksFit(c)
  BY <1>4, QuietFits
<1>6. EvidenceFits(trails[i], c)
  <2>1. CASE rep = NoReport
    BY <1>1, <1>3, <1>4, <2>1 DEF EvidenceFits, AmongShown
  <2>2. CASE rep # NoReport
    BY <1>1, <1>3, <1>4, <2>2 DEF EvidenceFits, AmongShown
  <2>3. QED
    BY <2>1, <2>2
<1>7. QED
  BY <1>2, <1>4, <1>5, <1>6, ConvSteps DEF Ends

(* A reply that goes on: b is the conversation before it is counted. *)
LEMMA HeardKeeps ==
    ASSUME DelegInv, NEW i \in Mates, NEW b \in Conversation, Heard(i, b), EvidenceFits(trails[i], b), b.hops <= MaxHops,
           AskedAtMost(b.asks + 1, b)
    PROVE  DelegInv'
<1> DEFINE c == [b EXCEPT !.asks = @ + 1]
<1>1. conv' = [conv EXCEPT ![i] = c]
  BY DEF Heard
<1>2. /\ c \in Conversation /\ c.at = b.at /\ c.hops = b.hops /\ c.nudged = b.nudged /\ c.reminded = b.reminded
      /\ c.asks = b.asks + 1 /\ c.shown = b.shown /\ c.calls = b.calls
  BY SMTT(30) DEF Conversation
<1> HIDE DEF c
<1>3. AsksFit(c)
  BY <1>2 DEF AsksFit, AskedAtMost
<1>4. EvidenceFits(trails[i], c)
  BY <1>2 DEF EvidenceFits, AmongShown
<1>5. QED
  BY <1>1, <1>2, <1>3, <1>4, ConvSteps DEF Heard

(* The same calls under another count or mark. *)
LEMMA EvidenceSame ==
    ASSUME NEW trail, NEW c, NEW d, EvidenceFits(trail, c), d.shown = c.shown, d.calls = c.calls
    PROVE  EvidenceFits(trail, d)
  BY DEF EvidenceFits, AmongShown

(* Every reply of a child. *)
LEMMA RepliesKeep ==
    ASSUME DelegInv, NEW i \in Mates,
           \/ LlmFails(i) \/ RepliesProse(i) \/ RepliesBotched(i) \/ RepliesBadReport(i)
           \/ \E ok \in BOOLEAN : RepliesCall(i, ok)
           \/ \E cites \in {{id} : id \in Ids} : RepliesReport(i, cites)
    PROVE  DelegInv'
<1>1. /\ conv[i] \in Conversation /\ AsksFit(conv[i]) /\ EvidenceFits(trails[i], conv[i])
      /\ trails[i] \in Seq(CallMade)
  BY DEF DelegInv, DelegTyped
<1>2. /\ conv[i].hops \in Nat /\ conv[i].asks \in Nat /\ conv[i].from \in Nat /\ conv[i].hops <= MaxHops /\ MaxHops \in Nat
      /\ conv[i].nudged \in BOOLEAN /\ conv[i].reminded \in BOOLEAN
      /\ conv[i].calls \in Seq(CallMade) /\ conv[i].shown \in Seq(CallMade)
  BY <1>1, DelegAssumption DEF Conversation, AsksFit
<1>3. PICK x, y, z \in {0, 1} :
         /\ conv[i].asks <= conv[i].hops + x + y + z
         /\ x = 1 => conv[i].nudged = TRUE
         /\ y = 1 => conv[i].reminded = TRUE
         /\ z = 1 => conv[i].at = "final"
  <2>1. AskedAtMost(conv[i].asks, conv[i])
    BY <1>1 DEF AsksFit
  <2>2. QED
    BY <2>1 DEF AskedAtMost
<1>4. conv[i].asks <= conv[i].hops + x + y + z /\ conv[i].asks \in Nat /\ conv[i].hops \in Nat
  BY <1>2, <1>3
<1>5. NoReport \in Reported /\ [kind |-> "prose", cites |-> {}] \in Reported
  BY DEF NoReport, Reported
<1>6. CASE LlmFails(i)
  BY <1>5, <1>6, EndsKeeps DEF LlmFails
<1>7. CASE RepliesProse(i)
  <2>1. CASE conv[i].at = "asks" /\ WantsSchema /\ ~conv[i].reminded /\ Below(i)
    <3> DEFINE b == [conv[i] EXCEPT !.reminded = TRUE]
    <3>1. Heard(i, b)
      BY <1>7, <2>1 DEF RepliesProse
    <3>2. /\ b \in Conversation /\ b.at = conv[i].at /\ b.hops = conv[i].hops /\ b.nudged = conv[i].nudged
          /\ b.asks = conv[i].asks /\ b.shown = conv[i].shown /\ b.calls = conv[i].calls /\ b.reminded = TRUE
      BY <1>1 DEF Conversation
    <3> HIDE DEF b
    <3>3. EvidenceFits(trails[i], b)
      BY <1>1, <3>2, EvidenceSame
    <3>4. y = 0
      BY <1>3, <2>1
    <3>5. b.asks + 1 <= b.hops + x + 1 + z
      <4>1. b.asks = conv[i].asks /\ b.hops = conv[i].hops
        BY <3>2
      <4>2. QED
        BY <1>4, <3>4, <4>1
    <3>6. AskedAtMost(b.asks + 1, b)
      BY <1>3, <3>2, <3>5 DEF AskedAtMost
    <3>7. QED
      BY <1>2, <3>1, <3>2, <3>3, <3>6, HeardKeeps
  <2>2. CASE ~(conv[i].at = "asks" /\ WantsSchema /\ ~conv[i].reminded /\ Below(i))
    BY <1>5, <1>7, <2>2, EndsKeeps DEF RepliesProse
  <2>3. QED
    BY <2>1, <2>2
<1>8. CASE RepliesBotched(i)
  <2> DEFINE b == [conv[i] EXCEPT !.nudged = TRUE]
  <2>1. Heard(i, b) /\ conv[i].at = "asks"
    BY <1>8 DEF RepliesBotched
  <2>2. /\ b \in Conversation /\ b.at = conv[i].at /\ b.hops = conv[i].hops /\ b.reminded = conv[i].reminded
        /\ b.asks = conv[i].asks /\ b.shown = conv[i].shown /\ b.calls = conv[i].calls /\ b.nudged = TRUE
    BY <1>1 DEF Conversation
  <2> HIDE DEF b
  <2>3. EvidenceFits(trails[i], b)
    BY <1>1, <2>2, EvidenceSame
  <2>4. x = 0
    BY <1>3, <1>8 DEF RepliesBotched
  <2>5. b.asks + 1 <= b.hops + 1 + y + z
    <3>1. b.asks = conv[i].asks /\ b.hops = conv[i].hops
      BY <2>2
    <3>2. QED
      BY <1>4, <2>4, <3>1
  <2>6. AskedAtMost(b.asks + 1, b)
    BY <1>3, <2>2, <2>5 DEF AskedAtMost
  <2>7. QED
    BY <1>2, <2>1, <2>2, <2>3, <2>6, HeardKeeps
<1>9. CASE RepliesBadReport(i)
  <2>1. CASE conv[i].at = "asks" /\ Below(i)
    <3> DEFINE h == conv[i].hops + 1
               b == [conv[i] EXCEPT !.hops = h]
    <3>1. Heard(i, b) /\ h \in Nat
      BY <1>2, <1>9, <2>1 DEF RepliesBadReport
    <3> HIDE DEF h
    <3>2. /\ b \in Conversation /\ b.at = conv[i].at /\ b.hops = h /\ b.reminded = conv[i].reminded
          /\ b.asks = conv[i].asks /\ b.shown = conv[i].shown /\ b.calls = conv[i].calls /\ b.nudged = conv[i].nudged
      BY <1>1, <3>1 DEF Conversation
    <3> HIDE DEF b
    <3>3. EvidenceFits(trails[i], b)
      BY <1>1, <3>2, EvidenceSame
    <3>4. b.asks + 1 <= b.hops + x + y + z
      <4>1. b.asks = conv[i].asks /\ b.hops = conv[i].hops + 1
        BY <3>2 DEF h
      <4>2. QED
        BY <1>4, <4>1
    <3>5. AskedAtMost(b.asks + 1, b)
      BY <1>3, <3>2, <3>4 DEF AskedAtMost
    <3>6. b.hops <= MaxHops
      BY <1>2, <2>1, <3>2 DEF Below, h
    <3>7. QED
      BY <3>1, <3>2, <3>3, <3>5, <3>6, HeardKeeps
  <2>2. CASE ~(conv[i].at = "asks" /\ Below(i))
    BY <1>5, <1>9, <2>2, EndsKeeps DEF RepliesBadReport
  <2>3. QED
    BY <2>1, <2>2
<1>10. ASSUME NEW ok \in BOOLEAN, RepliesCall(i, ok) PROVE DelegInv'
  <2> DEFINE m == conv[i].from + Len(conv[i].calls) + 1
             made == [id |-> m, ok |-> ok]
  <2>1. made \in CallMade /\ conv[i].at = "asks"
    <3>1. m \in Nat
      BY <1>2
    <3> HIDE DEF m
    <3>2. QED
      BY <1>10, <3>1 DEF CallMade, RepliesCall
  <2>2. z = 0
    BY <1>3, <2>1
  <2>3. CASE Below(i)
    <3> DEFINE h == conv[i].hops + 1
               cs == Append(conv[i].calls, made)
               sh == Append(conv[i].shown, made)
               b == [conv[i] EXCEPT !.hops = h, !.calls = cs, !.shown = sh]
    <3>1. Heard(i, b)
      BY <1>10, <2>3 DEF RepliesCall
    <3> HIDE DEF made
    <3>2. h \in Nat /\ cs \in Seq(CallMade) /\ sh \in Seq(CallMade)
      BY <1>2, <2>1
    <3> HIDE DEF h, cs, sh
    <3>3. /\ b \in Conversation /\ b.at = conv[i].at /\ b.hops = h /\ b.reminded = conv[i].reminded
          /\ b.asks = conv[i].asks /\ b.nudged = conv[i].nudged
          /\ b.shown = sh /\ b.calls = cs
      BY <1>1, <3>2 DEF Conversation
    <3> HIDE DEF b
    <3> USE DEF cs, sh
    <3>4. AmongShown(trails[i], b)
      <4> SUFFICES ASSUME NEW k \in 1 .. Len(trails[i]) PROVE \E l \in 1 .. Len(b.shown) : b.shown[l] = trails[i][k]
        BY DEF AmongShown
      <4>1. PICK l \in 1 .. Len(conv[i].shown) : conv[i].shown[l] = trails[i][k]
        BY <1>1 DEF EvidenceFits, AmongShown
      <4>2. l \in 1 .. Len(b.shown) /\ b.shown[l] = conv[i].shown[l]
        BY <1>2, <2>1, <3>3
      <4>3. QED
        BY <4>1, <4>2
    <3>5. AmongShown(b.calls, b)
      <4> SUFFICES ASSUME NEW k \in 1 .. Len(b.calls) PROVE \E l \in 1 .. Len(b.shown) : b.shown[l] = b.calls[k]
        BY DEF AmongShown
      <4>1. CASE k \in 1 .. Len(conv[i].calls)
        <5>1. b.calls[k] = conv[i].calls[k]
          BY <1>2, <2>1, <3>3, <4>1
        <5>2. PICK l \in 1 .. Len(conv[i].shown) : conv[i].shown[l] = conv[i].calls[k]
          BY <1>1, <4>1 DEF EvidenceFits, AmongShown
        <5>3. l \in 1 .. Len(b.shown) /\ b.shown[l] = conv[i].shown[l]
          BY <1>2, <2>1, <3>3
        <5>4. QED
          BY <5>1, <5>2, <5>3
      <4>2. CASE k = Len(conv[i].calls) + 1
        <5>1. b.calls[k] = made
          BY <1>2, <2>1, <3>3, <4>2
        <5>2. Len(conv[i].shown) + 1 \in 1 .. Len(b.shown) /\ b.shown[Len(conv[i].shown) + 1] = made
          BY <1>2, <2>1, <3>3
        <5>3. QED
          BY <5>1, <5>2
      <4>3. Len(b.calls) = Len(conv[i].calls) + 1 /\ Len(conv[i].calls) \in Nat
        BY <1>2, <2>1, <3>3
      <4>4. k \in 1 .. Len(conv[i].calls) \/ k = Len(conv[i].calls) + 1
        BY <4>3
      <4>5. QED
        BY <4>1, <4>2, <4>4
    <3>6. AskedAtMost(b.asks + 1, b)
      <4>1. b.asks + 1 <= b.hops + x + y + z
        <5>1. b.asks = conv[i].asks /\ b.hops = conv[i].hops + 1
          BY <3>3 DEF h
        <5>2. QED
          BY <1>4, <5>1
      <4>2. QED
        BY <1>3, <3>3, <4>1 DEF AskedAtMost
    <3>7. b.hops <= MaxHops
      BY <1>2, <2>3, <3>3 DEF Below, h
    <3>8. QED
      BY <3>1, <3>3, <3>4, <3>5, <3>6, <3>7, HeardKeeps DEF EvidenceFits
  <2>4. CASE ~Below(i)
    <3> DEFINE b == [conv[i] EXCEPT !.at = "final"]
    <3>1. Heard(i, b)
      BY <1>10, <2>4 DEF RepliesCall
    <3>2. /\ b \in Conversation /\ b.at = "final" /\ b.hops = conv[i].hops /\ b.reminded = conv[i].reminded
          /\ b.asks = conv[i].asks /\ b.shown = conv[i].shown /\ b.calls = conv[i].calls /\ b.nudged = conv[i].nudged
      BY <1>1 DEF Conversation
    <3> HIDE DEF b
    <3>3. EvidenceFits(trails[i], b)
      BY <1>1, <3>2, EvidenceSame
    <3>4. b.asks + 1 <= b.hops + x + y + 1
      <4>1. b.asks = conv[i].asks /\ b.hops = conv[i].hops
        BY <3>2
      <4>2. QED
        BY <1>4, <2>2, <4>1
    <3>5. AskedAtMost(b.asks + 1, b)
      BY <1>3, <3>2, <3>4 DEF AskedAtMost
    <3>6. QED
      BY <1>2, <3>1, <3>2, <3>3, <3>5, HeardKeeps
  <2>5. QED
    BY <2>3, <2>4
<1>11. ASSUME NEW cites \in {{id} : id \in Ids}, RepliesReport(i, cites) PROVE DelegInv'
  <2>1. [kind |-> "structured", cites |-> cites] \in Reported
    BY DEF Reported
  <2>2. QED
    BY <1>11, <2>1, EndsKeeps DEF RepliesReport
<1>12. QED
  BY <1>6, <1>7, <1>8, <1>9, <1>10, <1>11

(* The rows of a round's opening. *)
LEMMA StartsListed ==
    ASSUME NEW r \in Nat, NEW S \in SUBSET Mates
    PROVE  LET f == SetToSeq({<<<<r, i>>, "started">> : i \in S})
           IN  /\ f \in Seq(EdgeRow)
               /\ \A k \in 1 .. Len(f) : \E i \in S : f[k] = <<<<r, i>>, "started">>
               /\ \A i \in S : \E k \in 1 .. Len(f) : f[k] = <<<<r, i>>, "started">>
<1> DEFINE T == {<<<<r, i>>, "started">> : i \in S}
           g == [i \in S |-> "started"]
           f == SetToSeq(T)
<1>1. RowsOf(T, r, S, g) /\ \A i \in S : g[i] = "started"
  BY DEF RowsOf
<1> HIDE DEF g, T
<1>2. ListingOf(f, r, S, g)
  BY <1>1, RowsListed
<1> HIDE DEF f
<1>3. ASSUME NEW k \in 1 .. Len(f)
      PROVE  \E i \in S : f[k] = <<<<r, i>>, "started">>
  <2>1. PICK i \in S : f[k] = <<<<r, i>>, g[i]>>
    BY <1>2, <1>3 DEF ListingOf
  <2>2. g[i] = "started"
    BY <1>1
  <2>3. QED
    BY <2>1, <2>2
<1>4. ASSUME NEW i \in S
      PROVE  \E k \in 1 .. Len(f) : f[k] = <<<<r, i>>, "started">>
  <2>1. PICK k \in 1 .. Len(f) : f[k] = <<<<r, i>>, g[i]>>
    BY <1>2, <1>4 DEF ListingOf
  <2>2. g[i] = "started"
    BY <1>1, <1>4
  <2>3. QED
    BY <2>1, <2>2
<1>5. QED
  BY <1>2, <1>3, <1>4 DEF f, T, ListingOf

(* A round opens. *)
LEMMA OpensKeeps ==
    ASSUME DelegInv, Between, NEW S \in SUBSET Mates, skill = "ralph" => S \subseteq {Lone}, OpensRun(S)
    PROVE  DelegInv'
<1>1. /\ round' = round + 1 /\ crew' = S /\ delegated = "running" /\ crew = {}
      /\ UNCHANGED <<skill, trails, reports, halted, delegated>> /\ round \in Nat
      /\ conv \in [Mates -> Conversation] /\ trails \in [Mates -> Seq(CallMade)]
  BY DEF OpensRun, Between, DelegInv, DelegTyped
<1>2. ASSUME NEW i \in Mates
      PROVE  conv'[i] \in Conversation /\ AsksFit(conv'[i]) /\ EvidenceFits(trails[i], conv'[i])
  <2>1. /\ conv[i] \in Conversation /\ AsksFit(conv[i]) /\ EvidenceFits(trails[i], conv[i])
        /\ conv[i].shown \in Seq(CallMade) /\ trails[i] \in Seq(CallMade) /\ (skill # "team" => trails[i] = <<>>)
    BY <1>1 DEF DelegInv, Conversation
  <2>2. CASE i \notin S
    <3>1. conv'[i] = conv[i]
      BY <2>2 DEF OpensRun
    <3>2. QED
      BY <2>1, <3>1
  <2>3. CASE i \in S
    <3> DEFINE old == SeededWith(Len(trails[i]))
               sh == IF skill = "team" THEN conv[i].shown ELSE <<>>
               c == [old EXCEPT !.at = "asks", !.shown = sh]
    <3>1. conv'[i] = c
      BY <2>3 DEF OpensRun
    <3>2. Len(trails[i]) \in Nat
      BY <2>1
    <3>3. /\ old \in Conversation /\ old.calls = <<>> /\ old.hops = 0 /\ old.asks = 0
          /\ old.nudged = FALSE /\ old.reminded = FALSE
      BY <3>2, SeedFits
    <3>4. sh \in Seq(CallMade) /\ (skill = "team" => sh = conv[i].shown)
      BY <2>1
    <3> HIDE DEF old, sh
    <3>5. /\ c \in Conversation /\ c.calls = <<>> /\ c.hops = 0 /\ c.asks = 0 /\ c.at = "asks"
          /\ c.nudged = FALSE /\ c.reminded = FALSE /\ c.shown = sh
      BY <3>3, <3>4 DEF Conversation
    <3> HIDE DEF c
    <3>6. AsksFit(c)
      BY <3>5, QuietFits
    <3>7. AmongShown(trails[i], c)
      <4>1. CASE skill = "team"
        BY <2>1, <3>4, <3>5, <4>1 DEF EvidenceFits, AmongShown
      <4>2. CASE skill # "team"
        BY <2>1, <4>2 DEF AmongShown
      <4>3. QED
        BY <4>1, <4>2
    <3>8. AmongShown(c.calls, c)
      BY <3>5 DEF AmongShown
    <3>9. QED
      BY <3>1, <3>5, <3>6, <3>7, <3>8 DEF EvidenceFits
  <2>4. QED
    BY <2>2, <2>3
<1>3. DelegTyped'
  <2>1. DOMAIN conv' = Mates /\ conv' = [i \in Mates |-> conv'[i]]
    BY DEF OpensRun
  <2>2. conv' \in [Mates -> Conversation]
    BY <1>2, <2>1
  <2>3. QED
    BY <1>1, <2>2 DEF DelegTyped, DelegInv
<1>4. RowsFit'
  <2>1. CASE Logged
    <3> DEFINE r == round + 1
               T == {<<<<r, i>>, "started">> : i \in S}
    <3>1. runRows' = runRows \o SetToSeq(T)
      BY <1>1, <2>1 DEF OpensRun, Edges
    <3>2. r \in Nat
      BY <1>1
    <3> HIDE DEF r
    <3>3. /\ SetToSeq(T) \in Seq(EdgeRow)
          /\ \A k \in 1 .. Len(SetToSeq(T)) : \E i \in S : SetToSeq(T)[k] = <<<<r, i>>, "started">>
          /\ \A i \in S : \E k \in 1 .. Len(SetToSeq(T)) : SetToSeq(T)[k] = <<<<r, i>>, "started">>
      BY <3>2, StartsListed
    <3> USE DEF r
    <3>4. RowsOut(runRows, round, {})
      BY <1>1, <2>1 DEF DelegInv, RowsFit
    <3>5. RowsOut(runRows', round + 1, S)
      <4> DEFINE B == SetToSeq(T)
      <4>1. /\ B \in Seq(EdgeRow)
            /\ \A k \in 1 .. Len(B) : \E i \in S : B[k] = <<<<round + 1, i>>, "started">>
            /\ \A i \in S : \E k \in 1 .. Len(B) : B[k] = <<<<round + 1, i>>, "started">>
        BY <3>3
      <4> HIDE DEF B
      <4>2. RowsOut(runRows \o B, round + 1, S)
        BY <1>1, <3>4, <4>1, RowsOpened
      <4>3. QED
        BY <3>1, <4>2 DEF B
    <3>6. Logged' /\ round' > 0
      BY <1>1, <2>1 DEF Logged
    <3>7. QED
      BY <1>1, <3>5, <3>6 DEF RowsFit
  <2>2. CASE ~Logged
    <3>1. runRows' = runRows /\ ~Logged'
      BY <1>1, <2>2 DEF OpensRun, Logged
    <3>2. round' > 0
      BY <1>1
    <3>3. QED
      BY <1>1, <2>2, <3>1, <3>2 DEF DelegInv, RowsFit
  <2>3. QED
    BY <2>1, <2>2
<1>5. ASSUME NEW i \in Mates
      PROVE  AsksFit(conv[i])' /\ EvidenceFits(trails[i], conv[i])' /\ (skill' # "team" => trails'[i] = <<>>)
  <2>1. AsksFit(conv'[i]) /\ EvidenceFits(trails'[i], conv'[i])
    BY <1>1, <1>2
  <2>2. QED
    BY <1>1, <2>1 DEF AsksFit, AskedAtMost, EvidenceFits, AmongShown, DelegInv
<1>6. QED
  BY <1>3, <1>4, <1>5 DEF DelegInv

(* A step that settles rows and reports and leaves the conversations be. *)
LEMMA RowsMove ==
    ASSUME DelegInv, UNCHANGED <<skill, round, conv>>, crew' \in SUBSET Mates, halted' \in BOOLEAN,
           delegated' \in {"running", "ok", "failed"},
           reports' \in [Mates -> Reported], trails' \in [Mates -> Seq(CallMade)], RowsFit',
           \A i \in Mates : AmongShown(trails'[i], conv[i]) /\ (skill # "team" => trails'[i] = <<>>)
    PROVE  DelegInv'
<1>1. DelegTyped'
  BY DEF DelegInv, DelegTyped
<1>2. ASSUME NEW i \in Mates
      PROVE  AsksFit(conv[i])' /\ EvidenceFits(trails[i], conv[i])' /\ (skill' # "team" => trails'[i] = <<>>)
  <2>1. AsksFit(conv[i]) /\ AmongShown(conv[i].calls, conv[i]) /\ AmongShown(trails'[i], conv[i])
    BY DEF DelegInv, EvidenceFits
  <2>2. QED
    BY <2>1 DEF AsksFit, AskedAtMost, EvidenceFits, AmongShown
<1>3. QED
  BY <1>1, <1>2 DEF DelegInv

(* The same, where the trails stay as they are too. *)
LEMMA ReportsMove ==
    ASSUME DelegInv, UNCHANGED <<skill, round, conv, trails>>, crew' \in SUBSET Mates, halted' \in BOOLEAN,
           delegated' \in {"running", "ok", "failed"}, reports' \in [Mates -> Reported], RowsFit'
    PROVE  DelegInv'
<1>1. trails \in [Mates -> Seq(CallMade)]
      /\ \A i \in Mates : AmongShown(trails[i], conv[i]) /\ (skill # "team" => trails[i] = <<>>)
  BY DEF DelegInv, DelegTyped, EvidenceFits
<1>2. QED
  BY <1>1, RowsMove

(* A run that ends closed, or interrupted and open. *)
LEMMA SkillOver ==
    ASSUME DelegInv, UNCHANGED <<skill, round, halted>>, crew' = {}, delegated' \in {"ok", "failed"},
           Logged => RowsIn(runRows') \/ (halted /\ RowsOut(runRows', round, {})),
           ~Logged => runRows' = <<>>
    PROVE  RowsFit'
  BY DEF RowsFit, Logged

(* The first place exists. *)
LEMMA Lonely == Lone \in Mates
  BY DelegAssumption DEF Lone

(* Nothing is out and the run closes its own row. *)
LEMMA RunCloses ==
    ASSUME DelegInv, Between, Logged, NEW state \in Shut, NEW outcome \in {"ok", "failed"},
           Closes(<<<<RunRow, state>>>>, outcome), UNCHANGED <<trails, reports>>
    PROVE  DelegInv'
<1>1. RowsOut(runRows, round, {}) /\ round \in Nat
  BY DEF DelegInv, DelegTyped, RowsFit, Between
<1>2. RowsIn(runRows \o <<<<RunRow, state>>>>)
  BY <1>1, RunShut
<1>3. /\ runRows' = runRows \o <<<<RunRow, state>>>> /\ delegated' = outcome /\ crew' = {}
      /\ UNCHANGED <<skill, round, conv, halted>>
  BY DEF Closes
<1>4. RowsFit'
  BY <1>2, <1>3, SkillOver
<1>5. QED
  BY <1>3, <1>4, ReportsMove DEF DelegInv, DelegTyped

(* ralph is interrupted; a script ends. *)
LEMMA RunsCloseKeep == ASSUME DelegInv, RalphInterrupted \/ (\E good \in BOOLEAN : ScriptEnds(good)) PROVE DelegInv'
<1>1. CASE RalphInterrupted
  <2>1. Logged /\ "failed" \in Shut
    BY <1>1 DEF RalphInterrupted, Logged, Shut
  <2>2. QED
    BY <1>1, <2>1, RunCloses DEF RalphInterrupted
<1>2. ASSUME NEW good \in BOOLEAN, ScriptEnds(good) PROVE DelegInv'
  <2>1. Logged /\ "failed" \in Shut /\ "done" \in Shut
    BY <1>2 DEF ScriptEnds, Scripted, Logged, Shut
  <2>2. CASE good = TRUE
    <3>1. Closes(<<<<RunRow, "done">>>>, "ok") /\ UNCHANGED <<trails, reports>> /\ Between
      BY <1>2, <2>2 DEF ScriptEnds
    <3>2. QED
      BY <2>1, <3>1, RunCloses
  <2>3. CASE good = FALSE
    <3>1. Closes(<<<<RunRow, "failed">>>>, "failed") /\ UNCHANGED <<trails, reports>> /\ Between
      BY <1>2, <2>3 DEF ScriptEnds
    <3>2. QED
      BY <2>1, <3>1, RunCloses
  <2>4. QED
    BY <2>2, <2>3
<1>3. QED
  BY <1>1, <1>2

(* The team is over, interrupted or not. *)
LEMMA TeamEndsKeeps == ASSUME DelegInv, TeamEnds PROVE DelegInv'
<1>1. Logged /\ "failed" \in Shut /\ "done" \in Shut /\ Between /\ UNCHANGED <<trails, reports>>
  BY DEF TeamEnds, Logged, Shut
<1>2. CASE halted /\ Closes(<<>>, "failed")
  <2>1. RowsOut(runRows, round, {}) /\ runRows \in Seq(EdgeRow)
    BY <1>1 DEF DelegInv, DelegTyped, RowsFit, Between, RowsOut
  <2>2. runRows' = runRows /\ delegated' = "failed" /\ crew' = {} /\ UNCHANGED <<skill, round, conv, halted>>
    BY <1>2, <2>1 DEF Closes
  <2>3. RowsFit'
    BY <1>1, <1>2, <2>1, <2>2, SkillOver
  <2>4. QED
    BY <1>1, <2>2, <2>3, ReportsMove DEF DelegInv, DelegTyped
<1>3. CASE Closes(<<<<RunRow, "failed">>>>, "failed")
  BY <1>1, <1>3, RunCloses
<1>4. CASE Closes(<<<<RunRow, "done">>>>, "ok")
  BY <1>1, <1>4, RunCloses
<1>5. QED
  BY <1>2, <1>3, <1>4 DEF TeamEnds

(* Stop fires the token. *)
LEMMA HaltKeeps == ASSUME DelegInv, Halt PROVE DelegInv'
<1>1. UNCHANGED <<skill, round, crew, conv, trails, reports, runRows, delegated>> /\ halted' = TRUE /\ delegated = "running"
  BY DEF Halt
<1>2. RowsFit'
  BY <1>1 DEF DelegInv, RowsFit, Logged
<1>3. QED
  BY <1>1, <1>2, ReportsMove DEF DelegInv, DelegTyped

(* ralph, a team and a script open a round. *)
LEMMA OpenKeeps == ASSUME DelegInv, RoundOpens \/ (\E S \in SUBSET Mates : ScriptAsks(S)) PROVE DelegInv'
<1>1. CASE RoundOpens
  <2>1. {Lone} \in SUBSET Mates /\ Mates \in SUBSET Mates /\ Between
    BY <1>1, Lonely DEF RoundOpens
  <2>2. OpensRun({Lone}) \/ (skill = "team" /\ OpensRun(Mates))
    BY <1>1 DEF RoundOpens
  <2>3. QED
    BY <2>1, <2>2, OpensKeeps
<1>2. ASSUME NEW S \in SUBSET Mates, ScriptAsks(S) PROVE DelegInv'
  <2>1. Between /\ OpensRun(S) /\ skill # "ralph"
    BY <1>2 DEF ScriptAsks, Scripted
  <2>2. QED
    BY <2>1, OpensKeeps
<1>3. QED
  BY <1>1, <1>2

(* A single child reports. *)
LEMMA ChildKeeps == ASSUME DelegInv, ChildReports PROVE DelegInv'
<1>1. PICK i \in crew :
        /\ reports' = [reports EXCEPT ![i] = ReportOf(i)]
        /\ Closes(<<>>, IF ReportOf(i).kind = "none" THEN "failed" ELSE "ok")
  BY DEF ChildReports
<1>2. i \in Mates /\ ReportOf(i) \in Reported /\ reports \in [Mates -> Reported]
  BY DEF DelegInv, DelegTyped, ReportOf, Conversation
<1>3. /\ ~Logged /\ runRows = <<>> /\ runRows' = <<>> /\ delegated' \in {"ok", "failed"} /\ crew' = {}
      /\ UNCHANGED <<skill, round, conv, halted, trails>>
  BY <1>1 DEF ChildReports, Closes, Logged, DelegInv, RowsFit
<1>4. RowsFit'
  BY <1>3, SkillOver
<1>5. reports' \in [Mates -> Reported]
  BY <1>1, <1>2
<1>6. QED
  BY <1>3, <1>4, <1>5, ReportsMove DEF DelegInv, DelegTyped

-----------------------------------------------------------------------------
(* Appending rows one at a time or together. *)
LEMMA RowsAppended ==
    ASSUME NEW T, NEW s \in Seq(T), NEW a \in T, NEW b \in T
    PROVE  Append(s, a) = s \o <<a>> /\ s \o <<a, b>> = (s \o <<a>>) \o <<b>>
<1>1. Append(s, a) = s \o <<a>>
  BY AppendIsConcat
<1>2. <<a, b>> = <<a>> \o <<b>>
  <2> DEFINE p == <<a, b>>
             q == <<a>> \o <<b>>
  <2>1. p \in Seq(T) /\ Len(p) = 2 /\ p[1] = a /\ p[2] = b
    OBVIOUS
  <2>2. <<a>> \in Seq(T) /\ Len(<<a>>) = 1 /\ <<a>>[1] = a /\ <<b>> \in Seq(T) /\ Len(<<b>>) = 1 /\ <<b>>[1] = b
    OBVIOUS
  <2>3. q \in Seq(T) /\ Len(q) = 2 /\ q[1] = a /\ q[2] = b
    BY <2>2, ConcatProperties
  <2> HIDE DEF p, q
  <2>4. \A i \in 1 .. Len(p) : p[i] = q[i]
    BY <2>1, <2>3
  <2>5. p = q
    BY <2>1, <2>3, <2>4, SeqEqual
  <2>6. QED
    BY <2>5 DEF p, q
<1>3. <<a>> \in Seq(T) /\ <<b>> \in Seq(T)
  OBVIOUS
<1>4. s \o (<<a>> \o <<b>>) = (s \o <<a>>) \o <<b>>
  BY <1>3, ConcatAssociative
<1>5. QED
  BY <1>1, <1>2, <1>4

(* One member closes its row. *)
LEMMA MemberShut ==
    ASSUME NEW rs, NEW r \in Nat, r > 0, NEW C \in SUBSET Mates, NEW i \in C, NEW state \in Shut, RowsOut(rs, r, C)
    PROVE  RowsOut(rs \o <<<<<<r, i>>, state>>>>, r, C \ {i})
<1> DEFINE B == <<<<<<r, i>>, state>>>>
<1>1. <<<<r, i>>, state>> \in EdgeRow
  <2>1. i \in Mates
    OBVIOUS
  <2>2. QED
    BY <2>1 DEF EdgeRow, Shut
<1>0. /\ B \in Seq(EdgeRow) /\ Len(B) = 1 /\ B[1][1] = <<r, i>> /\ B[1][2] = state
  BY <1>1
<1> HIDE DEF B
<1>2. /\ \A k \in 1 .. Len(B) : k = 1 /\ B[k][2] \in Shut /\ \E a \in {i} : B[k][1] = <<r, a>>
      /\ \A a \in {i} : \E k \in 1 .. Len(B) : B[k][1] = <<r, a>>
  BY <1>0
<1>3. {i} \in SUBSET C
  OBVIOUS
<1>4. RowsOut(rs \o B, r, C \ {i})
  BY <1>0, <1>2, <1>3, RowsShut
<1>5. QED
  BY <1>4 DEF B

(* A script's agent ends. *)
LEMMA AgentEndsKeeps == ASSUME DelegInv, NEW i \in Mates, AgentEnds(i) PROVE DelegInv'
<1>1. /\ delegated = "running" /\ Logged /\ i \in crew /\ crew' = crew \ {i}
      /\ UNCHANGED <<skill, round, conv, trails, reports, halted, delegated>>
  BY DEF AgentEnds, Scripted, Logged
<1>2. round \in Nat /\ round > 0 /\ crew \in SUBSET Mates /\ RowsOut(runRows, round, crew) /\ runRows \in Seq(EdgeRow)
  BY <1>1 DEF DelegInv, DelegTyped, RowsFit, RowsOut
<1>3. PICK state \in Shut : runRows' = Append(runRows, <<<<round, i>>, state>>)
  BY DEF AgentEnds, Shut
<1>4. runRows' = runRows \o <<<<<<round, i>>, state>>>>
  <2>1. <<<<round, i>>, state>> \in EdgeRow
    BY <1>2 DEF EdgeRow, Shut
  <2>2. QED
    BY <1>2, <1>3, <2>1, RowsAppended
<1>5. RowsOut(runRows', round, crew \ {i})
  BY <1>1, <1>2, <1>4, MemberShut
<1>6. RowsFit'
  BY <1>1, <1>2, <1>5 DEF RowsFit, Logged, Scripted, AgentEnds
<1>7. QED
  BY <1>1, <1>2, <1>6, ReportsMove DEF DelegInv, DelegTyped

(* ralph's one child closes its row, and the run may close after it. *)
LEMMA RoundShut ==
    ASSUME DelegInv, RoundOver, skill = "ralph", NEW i \in crew, NEW state \in Shut
    PROVE  /\ i \in Mates /\ round \in Nat /\ round > 0 /\ Logged /\ runRows \in Seq(EdgeRow) /\ crew = {i}
           /\ ReportOf(i) \in Reported
           /\ RowsOut(runRows \o <<<<<<round, i>>, state>>>>, round, {})
<1>1. /\ crew \in SUBSET Mates /\ crew \subseteq {Lone} /\ round \in Nat /\ round > 0 /\ Logged
      /\ RowsOut(runRows, round, crew) /\ conv \in [Mates -> Conversation]
  BY DEF DelegInv, DelegTyped, RowsFit, RoundOver, Logged
<1>2. crew = {i} /\ crew \ {i} = {}
  BY <1>1
<1>3. RowsOut(runRows \o <<<<<<round, i>>, state>>>>, round, {})
  BY <1>1, <1>2, MemberShut
<1>4. ReportOf(i) \in Reported
  BY <1>1 DEF ReportOf, Conversation
<1>5. QED
  BY <1>1, <1>2, <1>3, <1>4 DEF RowsOut

(* ralph's round closes, and the run. *)
LEMMA RoundCloses ==
    ASSUME DelegInv, RoundOver, skill = "ralph", NEW i \in crew, NEW state \in Shut, NEW end \in Shut,
           NEW outcome \in {"ok", "failed"}, UNCHANGED trails, reports' \in [Mates -> Reported],
           Closes(<<<<<<round, i>>, state>>, <<RunRow, end>>>>, outcome)
    PROVE  DelegInv'
<1> DEFINE a == <<<<round, i>>, state>>
           b == <<RunRow, end>>
<1>1. /\ round \in Nat /\ Logged /\ runRows \in Seq(EdgeRow) /\ RowsOut(runRows \o <<a>>, round, {})
  BY RoundShut
<1>2. /\ runRows' = runRows \o <<a, b>> /\ delegated' = outcome /\ crew' = {}
      /\ UNCHANGED <<skill, round, conv, halted>>
  BY DEF Closes
<1>3. RowsIn((runRows \o <<a>>) \o <<b>>)
  BY <1>1, RunShut
<1> HIDE DEF a, b
<1>4. runRows' = (runRows \o <<a>>) \o <<b>>
  <2>1. a \in EdgeRow
    BY <1>1, RoundShut DEF a, EdgeRow, Shut
  <2>2. b \in EdgeRow
    BY DEF b, EdgeRow, RunRow, Shut
  <2>3. QED
    BY <1>1, <1>2, <2>1, <2>2, RowsAppended
<1>5. RowsFit'
  BY <1>1, <1>2, <1>3, <1>4, SkillOver
<1>6. QED
  BY <1>2, <1>5, ReportsMove DEF DelegInv, DelegTyped

(* ralph's round gave no report. *)
LEMMA RoundFailsKeeps == ASSUME DelegInv, RoundFails PROVE DelegInv'
<1>1. PICK i \in crew : Closes(<<<<<<round, i>>, "failed">>, <<RunRow, "failed">>>>, "failed")
  BY DEF RoundFails
<1>2. RoundOver /\ skill = "ralph" /\ UNCHANGED trails /\ "failed" \in Shut /\ reports' \in [Mates -> Reported]
  BY DEF RoundFails, Shut, DelegInv, DelegTyped
<1>3. QED
  BY <1>1, <1>2, RoundCloses

(* ralph's round gave a report. *)
LEMMA RoundReportsKeeps == ASSUME DelegInv, NEW status \in Statuses, RoundReports(status) PROVE DelegInv'
<1>1. RoundOver /\ skill = "ralph" /\ UNCHANGED trails /\ "done" \in Shut /\ "failed" \in Shut
      /\ delegated = "running" /\ reports \in [Mates -> Reported]
  BY DEF RoundReports, Shut, RoundOver, DelegInv, DelegTyped
<1>2. PICK i \in crew :
          /\ reports' = [reports EXCEPT ![i] = ReportOf(i)]
          /\ IF status = "continue" /\ round < MaxRounds
             THEN /\ runRows' = Append(runRows, <<<<round, i>>, "done">>) /\ crew' = {}
                  /\ UNCHANGED <<skill, round, conv, spent, halted, delegated>>
             ELSE LET good == status # "blocked"
                  IN  Closes(<<<<<<round, i>>, "done">>, <<RunRow, IF good THEN "done" ELSE "failed">>>>,
                             IF good THEN "ok" ELSE "failed")
  BY DEF RoundReports
<1>3. ReportOf(i) \in Reported /\ RowsOut(runRows \o <<<<<<round, i>>, "done">>>>, round, {}) /\ runRows \in Seq(EdgeRow)
      /\ i \in Mates /\ Logged
  BY <1>1, RoundShut
<1>4. reports' \in [Mates -> Reported]
  BY <1>1, <1>2, <1>3
<1>5. CASE status = "continue" /\ round < MaxRounds
  <2>1. /\ runRows' = runRows \o <<<<<<round, i>>, "done">>>> /\ crew' = {}
        /\ UNCHANGED <<skill, round, conv, spent, halted, delegated>>
    <3>1. <<<<round, i>>, "done">> \in EdgeRow
      BY <1>1, RoundShut DEF EdgeRow
    <3>2. QED
      BY <1>2, <1>3, <1>5, <3>1, RowsAppended
  <2>2. RowsFit'
    BY <1>1, <1>3, <2>1 DEF RowsFit, Logged
  <2>3. QED
    BY <1>1, <1>4, <2>1, <2>2, ReportsMove DEF DelegInv, DelegTyped
<1>6. CASE ~(status = "continue" /\ round < MaxRounds)
  <2>1. CASE status # "blocked"
    <3>1. Closes(<<<<<<round, i>>, "done">>, <<RunRow, "done">>>>, "ok")
      BY <1>2, <1>6, <2>1
    <3>2. QED
      BY <1>1, <1>4, <3>1, RoundCloses
  <2>2. CASE status = "blocked"
    <3>1. Closes(<<<<<<round, i>>, "done">>, <<RunRow, "failed">>>>, "failed")
      BY <1>2, <1>6, <2>2
    <3>2. QED
      BY <1>1, <1>4, <3>1, RoundCloses
  <2>3. QED
    BY <2>1, <2>2
<1>7. QED
  BY <1>5, <1>6

(* A team's round: every member closes its row, and the calls of those     *)
(* that reported go to their trails.                                       *)
LEMMA TeamRoundRows == ASSUME DelegInv, TeamRoundEnds PROVE RowsFit'
<1>1. /\ skill = "team" /\ Logged /\ delegated = "running" /\ crew # {} /\ crew' = {}
      /\ UNCHANGED <<skill, round, halted, delegated>>
      /\ \A i \in crew : conv[i].at = "over"
  BY DEF TeamRoundEnds, RoundOver, Logged
<1>2. round \in Nat /\ round > 0 /\ crew \in SUBSET Mates /\ RowsOut(runRows, round, crew)
  BY <1>1 DEF DelegInv, DelegTyped, RowsFit
<1> DEFINE g == [i \in crew |-> IF ReportOf(i).kind = "none" THEN "failed" ELSE "done"]
           T == {<<<<round, i>>, IF ReportOf(i).kind = "none" THEN "failed" ELSE "done">> : i \in crew}
           B == SetToSeq(T)
<1>3. RowsOf(T, round, crew, g)
  <2>1. T = {<<<<round, i>>, g[i]>> : i \in crew}
    OBVIOUS
  <2>2. g \in [crew -> {"started", "done", "failed"}] /\ \A i \in crew : g[i] \in Shut
    BY DEF Shut
  <2>3. QED
    BY <2>1, <2>2 DEF RowsOf
<1>4. \A i \in crew : g[i] \in Shut
  BY DEF Shut
<1>5. runRows' = runRows \o B
  BY DEF TeamRoundEnds
<1> HIDE DEF g, T
<1>6. /\ B \in Seq(EdgeRow)
      /\ \A k \in 1 .. Len(B) : \E i \in crew : B[k] = <<<<round, i>>, g[i]>>
      /\ \A i \in crew : \E k \in 1 .. Len(B) : B[k] = <<<<round, i>>, g[i]>>
      /\ \A j, k \in 1 .. Len(B) : B[j][1] = B[k][1] => j = k
  <2>1. ListingOf(B, round, crew, g)
    BY <1>2, <1>3, RowsListed
  <2>2. QED
    BY <2>1 DEF ListingOf
<1> HIDE DEF B
<1>7. /\ \A k \in 1 .. Len(B) : B[k][2] \in Shut /\ \E i \in crew : B[k][1] = <<round, i>>
      /\ \A i \in crew : \E k \in 1 .. Len(B) : B[k][1] = <<round, i>>
  <2>1. ASSUME NEW k \in 1 .. Len(B) PROVE B[k][2] \in Shut /\ \E i \in crew : B[k][1] = <<round, i>>
    <3>1. PICK i \in crew : B[k] = <<<<round, i>>, g[i]>>
      BY <1>6
    <3>2. B[k][1] = <<round, i>> /\ B[k][2] = g[i]
      BY <3>1
    <3>3. QED
      BY <1>4, <3>2
  <2>2. ASSUME NEW i \in crew PROVE \E k \in 1 .. Len(B) : B[k][1] = <<round, i>>
    <3>1. PICK k \in 1 .. Len(B) : B[k] = <<<<round, i>>, g[i]>>
      BY <1>6
    <3>2. B[k][1] = <<round, i>>
      BY <3>1
    <3>3. QED
      BY <3>2
  <2>3. QED
    BY <2>1, <2>2
<1>8. crew \in SUBSET crew /\ crew \ crew = {}
  OBVIOUS
<1>9. RowsOut(runRows \o B, round, crew \ crew)
  BY <1>2, <1>6, <1>7, <1>8, RowsShut
<1>10. QED
  BY <1>1, <1>5, <1>8, <1>9 DEF RowsFit, Logged

(* A team's round ends: calls of members that reported become evidence. *)
LEMMA TeamRoundKeeps == ASSUME DelegInv, TeamRoundEnds PROVE DelegInv'
<1>1. /\ skill = "team" /\ delegated = "running" /\ crew' = {} /\ UNCHANGED <<skill, round, conv, spent, halted, delegated>>
      /\ reports' = [i \in Mates |-> IF i \in crew /\ ReportOf(i).kind # "none" THEN ReportOf(i) ELSE reports[i]]
      /\ trails' = [i \in Mates |-> IF i \in crew /\ ReportOf(i).kind # "none" THEN trails[i] \o conv[i].calls ELSE trails[i]]
  BY DEF TeamRoundEnds, RoundOver
<1>2. /\ conv \in [Mates -> Conversation] /\ reports \in [Mates -> Reported] /\ trails \in [Mates -> Seq(CallMade)]
      /\ halted \in BOOLEAN /\ \A i \in Mates : EvidenceFits(trails[i], conv[i])
  BY DEF DelegInv, DelegTyped
<1>3. reports' \in [Mates -> Reported]
  BY <1>1, <1>2 DEF ReportOf, Conversation
<1>4. ASSUME NEW i \in Mates
      PROVE  trails'[i] \in Seq(CallMade) /\ AmongShown(trails'[i], conv[i])
  <2>1. /\ trails[i] \in Seq(CallMade) /\ conv[i].calls \in Seq(CallMade)
        /\ AmongShown(trails[i], conv[i]) /\ AmongShown(conv[i].calls, conv[i])
    BY <1>2 DEF Conversation, EvidenceFits
  <2>2. CASE trails'[i] = trails[i]
    BY <2>1, <2>2
  <2>3. CASE trails'[i] = trails[i] \o conv[i].calls
    <3> DEFINE s == trails[i]
               t == conv[i].calls
    <3>1. s \in Seq(CallMade) /\ t \in Seq(CallMade)
      BY <2>1
    <3> HIDE DEF s, t
    <3>2. /\ s \o t \in Seq(CallMade) /\ Len(s) \in Nat
          /\ \A k \in 1 .. Len(s \o t) : \/ k \in 1 .. Len(s) /\ (s \o t)[k] = s[k]
                                         \/ k - Len(s) \in 1 .. Len(t) /\ (s \o t)[k] = t[k - Len(s)]
      BY <3>1
    <3>3. AmongShown(s, conv[i]) /\ AmongShown(t, conv[i])
      BY <2>1 DEF s, t
    <3>4. AmongShown(s \o t, conv[i])
      BY <3>2, <3>3, ZenonT(60) DEF AmongShown
    <3>5. QED
      BY <2>3, <3>2, <3>4 DEF s, t
  <2>4. QED
    BY <1>1, <2>2, <2>3
<1>5. trails' \in [Mates -> Seq(CallMade)]
  <2>1. trails' = [i \in Mates |-> trails'[i]]
    BY <1>1
  <2>2. QED
    BY <1>4, <2>1
<1>6. QED
  BY <1>1, <1>2, <1>3, <1>4, <1>5, TeamRoundRows, RowsMove

(* Every step keeps the invariant. *)
LEMMA DelegStep == ASSUME DelegInv, [DelegNext]_delegVars PROVE DelegInv'
<1>1. CASE UNCHANGED delegVars
  BY <1>1 DEF delegVars, DelegInv, DelegTyped, RowsFit, Logged, AsksFit, AskedAtMost, EvidenceFits, AmongShown
<1>2. ASSUME NEW i \in Mates,
             \/ LlmFails(i) \/ RepliesProse(i) \/ RepliesBotched(i) \/ RepliesBadReport(i)
             \/ \E ok \in BOOLEAN : RepliesCall(i, ok)
             \/ \E cites \in {{id} : id \in Ids} : RepliesReport(i, cites)
      PROVE  DelegInv'
  BY <1>2, RepliesKeep
<1>3. ASSUME NEW i \in Mates, AgentEnds(i) PROVE DelegInv'
  BY <1>3, AgentEndsKeeps
<1>4. CASE RoundOpens \/ \E S \in SUBSET Mates : ScriptAsks(S)
  BY <1>4, OpenKeeps
<1>5. CASE ChildReports
  BY <1>5, ChildKeeps
<1>6. CASE RoundFails
  BY <1>6, RoundFailsKeeps
<1>7. CASE TeamRoundEnds
  BY <1>7, TeamRoundKeeps
<1>8. CASE TeamEnds
  BY <1>8, TeamEndsKeeps
<1>9. CASE RalphInterrupted \/ \E good \in BOOLEAN : ScriptEnds(good)
  BY <1>9, RunsCloseKeep
<1>10. ASSUME NEW status \in Statuses, RoundReports(status) PROVE DelegInv'
  BY <1>10, RoundReportsKeeps
<1>11. CASE Halt
  BY <1>11, HaltKeeps
<1>12. QED
  BY <1>1, <1>2, <1>3, <1>4, <1>5, <1>6, <1>7, <1>8, <1>9, <1>10, <1>11 DEF DelegNext

-----------------------------------------------------------------------------
(* The invariant gives each part of DelegationSound. *)
LEMMA RowsAreNested == DelegInv => RowsNest
<1> SUFFICES ASSUME DelegInv PROVE RowsNest
  OBVIOUS
<1> DEFINE at(what, states) == {k \in DOMAIN runRows : runRows[k][1] = what /\ runRows[k][2] \in states}
<1>1. CASE ~Logged
  <2>1. runRows = <<>> /\ DOMAIN runRows = {}
    BY <1>1 DEF DelegInv, RowsFit
  <2>2. QED
    BY <1>1, <2>1 DEF RowsNest
<1>2. CASE Logged
  <2>0. RowsIn(runRows) \/ RowsOut(runRows, round, crew) \/ RowsOut(runRows, round, {})
    BY <1>2 DEF DelegInv, RowsFit
  <2>1. /\ runRows \in Seq(EdgeRow) /\ DOMAIN runRows = 1 .. Len(runRows)
        /\ \A j, k \in 1 .. Len(runRows) : runRows[j][2] \in Shut /\ runRows[k][2] \in Shut /\ runRows[j][1] = runRows[k][1] => j = k
        /\ \A k \in 1 .. Len(runRows) : runRows[k][2] \in Shut => \E j \in 1 .. k - 1 : runRows[j] = <<runRows[k][1], "started">>
        /\ Len(runRows) \in Nat
    <3>1. RowsIn(runRows) \/ RowsOut(runRows, round, crew) \/ RowsOut(runRows, round, {})
      BY <2>0
    <3>2. ASSUME RowsIn(runRows)
          PROVE  /\ \A j, k \in 1 .. Len(runRows) :
                       runRows[j][2] \in Shut /\ runRows[k][2] \in Shut /\ runRows[j][1] = runRows[k][1] => j = k
                 /\ \A k \in 1 .. Len(runRows) :
                       runRows[k][2] \in Shut => \E j \in 1 .. k - 1 : runRows[j] = <<runRows[k][1], "started">>
      BY <3>2 DEF RowsIn
    <3>3. ASSUME NEW C, RowsOut(runRows, round, C)
          PROVE  /\ runRows \in Seq(EdgeRow)
                 /\ \A j, k \in 1 .. Len(runRows) :
                       runRows[j][2] \in Shut /\ runRows[k][2] \in Shut /\ runRows[j][1] = runRows[k][1] => j = k
                 /\ \A k \in 1 .. Len(runRows) :
                       runRows[k][2] \in Shut => \E j \in 1 .. k - 1 : runRows[j] = <<runRows[k][1], "started">>
      BY <3>3 DEF RowsOut
    <3>4. runRows \in Seq(EdgeRow)
      BY <3>1 DEF RowsIn, RowsOut
    <3>5. DOMAIN runRows = 1 .. Len(runRows) /\ Len(runRows) \in Nat
      BY <3>4
    <3>6. QED
      BY <3>1, <3>2, <3>3, <3>4, <3>5
  <2>2. ASSUME NEW k \in DOMAIN runRows, runRows[k][2] \in Shut
        PROVE  Cardinality(at(runRows[k][1], Shut)) = 1
    <3>1. at(runRows[k][1], Shut) = {k}
      BY <2>1, <2>2
    <3> HIDE DEF at
    <3>2. QED
      BY <3>1, FS_Singleton
  <2>3. ASSUME NEW k \in at(RunRow, Shut)
        PROVE  k = Len(runRows) /\ \A j \in 1 .. k : at(runRows[j][1], Shut) # {}
    <3>1. k \in 1 .. Len(runRows) /\ runRows[k][1] = RunRow /\ runRows[k][2] \in Shut
      BY <2>1, <2>3
    <3>2. ASSUME NEW C, RowsOut(runRows, round, C) PROVE FALSE
      <4>1. runRows[k][2] = "started"
        BY <3>1, <3>2 DEF RowsOut
      <4>2. QED
        BY <3>1, <4>1 DEF Shut
    <3>3. RowsIn(runRows)
      BY <2>0, <3>2
    <3>4. k = Len(runRows) /\ \A j \in 1 .. Len(runRows) :
             \E l \in 1 .. Len(runRows) : runRows[l][1] = runRows[j][1] /\ runRows[l][2] \in Shut
      BY <3>1, <3>3 DEF RowsIn
    <3>5. \A j \in 1 .. Len(runRows) : at(runRows[j][1], Shut) # {}
      BY <2>1, <3>4
    <3>6. QED
      BY <3>1, <3>4, <3>5
  <2>4. ASSUME delegated \in {"ok", "failed"}, ~halted PROVE at(RunRow, Shut) # {}
    <3>1. RowsIn(runRows)
      BY <1>2, <2>4 DEF DelegInv, RowsFit
    <3>2. QED
      BY <2>1, <3>1 DEF RowsIn
  <2> HIDE DEF at
  <2>5. QED
    BY <2>1, <2>2, <2>3, <2>4 DEF RowsNest, Shut, at
<1>3. QED
  BY <1>1, <1>2

LEMMA RepliesAreBounded == DelegInv => RepliesBounded
<1> SUFFICES ASSUME DelegInv, NEW i \in Mates PROVE conv[i].asks < MaxHops + 4
  BY DEF RepliesBounded
<1>1. conv[i] \in Conversation /\ AsksFit(conv[i])
  BY DEF DelegInv, DelegTyped
<1> DEFINE n == conv[i].asks
           h == conv[i].hops
<1>2. n \in Nat /\ h \in Nat /\ h <= MaxHops /\ MaxHops \in Nat
  BY <1>1, DelegAssumption DEF Conversation, AsksFit
<1>3. PICK x, y, z \in {0, 1} : n <= h + x + y + z
  BY <1>1 DEF AsksFit, AskedAtMost
<1> HIDE DEF n, h
<1>4. n < MaxHops + 4
  BY <1>2, <1>3
<1>5. QED
  BY <1>4 DEF n

LEMMA CitationsWereRun == DelegInv => CitedWasRun
<1> SUFFICES ASSUME DelegInv, NEW i \in Mates, NEW id \in Cited(i)
             PROVE  \E k \in DOMAIN conv[i].shown : conv[i].shown[k].id = id /\ conv[i].shown[k].ok
  BY DEF CitedWasRun
<1>1. trails[i] \in Seq(CallMade) /\ conv[i].shown \in Seq(CallMade) /\ AmongShown(trails[i], conv[i])
  BY DEF DelegInv, DelegTyped, Conversation, EvidenceFits
<1>2. PICK k \in 1 .. Len(trails[i]) : trails[i][k].id = id /\ trails[i][k].ok
  BY <1>1 DEF Cited
<1>3. PICK l \in 1 .. Len(conv[i].shown) : conv[i].shown[l] = trails[i][k]
  BY <1>1, <1>2 DEF AmongShown
<1>4. l \in DOMAIN conv[i].shown
  BY <1>1, <1>3
<1>5. QED
  BY <1>2, <1>3, <1>4

(* Every delegated run is accounted for: its rows open and close once and  *)
(* inside the run's own (runner.rs, ralph.rs, team.rs, workflow.rs), its   *)
(* conversation asks the model a bounded number of times, and a claim is   *)
(* shown as backed only by a call that was run and shown (render_claims).  *)
THEOREM DelegationKept == DelegSpec => []DelegationSound
<1>1. DelegInv => DelegationSound
  BY RowsAreNested, RepliesAreBounded, CitationsWereRun DEF DelegationSound
<1>2. DelegInv /\ [DelegNext]_delegVars => DelegInv'
  BY DelegStep
<1>3. QED
  BY DelegInitially, <1>1, <1>2, PTL DEF DelegSpec

-----------------------------------------------------------------------------
(* Hooks. *)

HooksSpec == HooksInit /\ [][HooksNext]_hookVars

-----------------------------------------------------------------------------
(* How strict an answer is. *)
Strictness(o) == IF o \in Deliberate THEN 2 ELSE IF o = "ask" THEN 1 ELSE 0

(* The run in hand holds the answer of each hook that ended. *)
AnswersFit ==
    /\ DOMAIN hookRun = DOMAIN NoRun
    /\ IsSequence(hookRun.done) /\ IsSequence(written)
    /\ hookRun # NoRun =>
          /\ Len(hookRun.done) = Len(written)
          /\ \A i \in 1 .. Len(written) : hookRun.done[i].rank = Strictness(written[i])

(* What a run is of, and the call it is for. *)
RunFits ==
    /\ hookRun # NoRun =>
          \/ hookRun.on \in {"SessionStart", "UserPromptSubmit", "SessionEnd"} /\ toolCall = "none"
          \/ hookRun.on = "PreToolUse" /\ toolCall = "pre"
          \/ hookRun.on = "PostToolUse" /\ toolCall = "post"
    /\ hookRun = NoRun => toolCall \notin {"pre", "post"}
    /\ logThere \in BOOLEAN
    /\ ~logThere => /\ toolCall \in {"none", "refused"}
                    /\ hookRun = NoRun \/ hookRun.on = "UserPromptSubmit"

(* What was decided, by what the hooks did. *)
DecidedFits ==
    /\ toolCall \in {"refused", "blocked"} =>
          \E i \in 1 .. Len(written) : written[i] \in Deliberate \cup {"ask"}
    /\ toolCall = "ask" => \E i \in 1 .. Len(written) : written[i] = "ask"
    /\ toolCall \in {"body", "ask", "allowed"} => \A i \in 1 .. Len(written) : written[i] \notin Deliberate
    /\ toolCall = "body" => \A i \in 1 .. Len(written) : written[i] # "ask"

(* The log, and what came before it. *)
PromptsOnly(entries, n) == \A i \in 1 .. n : entries[i][1] = "UserPromptSubmit"
AuditFits ==
    /\ IsSequence(hooksRan) /\ IsSequence(auditRows)
    /\ \E n \in 0 .. Len(hooksRan) :
          /\ PromptsOnly(hooksRan, n)
          /\ Len(auditRows) = Len(hooksRan) - n
          /\ \A i \in 1 .. Len(auditRows) : auditRows[i] = hooksRan[n + i]
    /\ ~logThere => auditRows = <<>> /\ PromptsOnly(hooksRan, Len(hooksRan))

(* The inductive invariant. *)
HooksInv == AnswersFit /\ RunFits /\ DecidedFits /\ AuditFits

LEMMA HooksInitially == HooksInit => HooksInv
<1> SUFFICES ASSUME HooksInit PROVE HooksInv
  OBVIOUS
<1>1. Len(<<>>) = 0 /\ 0 \in 0 .. Len(<<>>)
  OBVIOUS
<1>2. AnswersFit
  BY EmptyIsSequence DEF HooksInit, AnswersFit, NoRun
<1>3. RunFits /\ DecidedFits
  BY DEF HooksInit, RunFits, DecidedFits
<1>4. AuditFits
  BY <1>1, EmptyIsSequence DEF HooksInit, AuditFits, PromptsOnly
<1>5. QED
  BY <1>2, <1>3, <1>4 DEF HooksInv

(* A run begins. *)
LEMMA BeginsKeeps ==
    ASSUME HooksInv, NEW on, NEW hs, hookRun' = Begins(on, hs), written' = <<>>,
           UNCHANGED <<hooksRan, auditRows>>,
           logThere' = (logThere \/ on = "SessionStart"), logThere \in BOOLEAN,
           \/ on \in {"SessionStart", "UserPromptSubmit", "SessionEnd"} /\ toolCall' = "none"
           \/ on = "PreToolUse" /\ toolCall' = "pre"
           \/ on = "PostToolUse" /\ toolCall' = "post",
           ~logThere' => on = "UserPromptSubmit"
    PROVE  HooksInv'
<1>1. DOMAIN hookRun' = DOMAIN NoRun /\ hookRun'.done = <<>> /\ hookRun'.on = on /\ hookRun'.at = "spawn" /\ hookRun' # NoRun
  BY DEF Begins, NoRun
<1>2. AnswersFit'
  BY <1>1, EmptyIsSequence DEF AnswersFit
<1>3. RunFits'
  BY <1>1 DEF RunFits
<1>4. DecidedFits'
  BY DEF DecidedFits
<1>5. AuditFits'
  BY DEF HooksInv, AuditFits, PromptsOnly
<1>6. QED
  BY <1>2, <1>3, <1>4, <1>5 DEF HooksInv

(* The run goes on: its hooks' answers stay. *)
LEMMA RunGoesOn ==
    ASSUME HooksInv, hookRun # NoRun, hookRun' # NoRun,
           DOMAIN hookRun' = DOMAIN hookRun, hookRun'.on = hookRun.on, hookRun'.done = hookRun.done,
           UNCHANGED <<written, hookFate, toolCall>>
    PROVE  HooksInv'
<1>1. AnswersFit'
  BY DEF HooksInv, AnswersFit
<1>2. RunFits'
  BY DEF HooksInv, RunFits, hookFate
<1>3. DecidedFits'
  BY DEF HooksInv, DecidedFits
<1>4. AuditFits'
  BY DEF HooksInv, AuditFits, PromptsOnly, hookFate
<1>5. QED
  BY <1>1, <1>2, <1>3, <1>4 DEF HooksInv

(* A hook ends, one way or another. *)
LEMMA AnsweredKeeps ==
    ASSUME HooksInv, hookRun # NoRun, NEW o, Answered(o),
           hookRun.at \in {"spawn", "wait"}
    PROVE  HooksInv'
<1> DEFINE a == ParseAnswer(Head(hookRun.todo).id, o)
<1>1. a.rank = Strictness(o)
  BY DEF ParseAnswer, Strictness
<1> HIDE DEF a
<1>2. /\ hookRun'.done = Append(hookRun.done, a) /\ hookRun'.on = hookRun.on /\ hookRun'.at = "spawn"
      /\ DOMAIN hookRun' = DOMAIN NoRun /\ written' = Append(written, o) /\ UNCHANGED <<hookFate, toolCall>>
  <2>1. DOMAIN hookRun = {"on", "todo", "done", "at", "spent", "waited"}
    BY DEF HooksInv, AnswersFit, NoRun
  <2>2. QED
    BY <2>1 DEF Answered, a, NoRun
<1>3. hookRun' # NoRun
  BY <1>2 DEF NoRun
<1>4. AnswersFit'
  <2>1. /\ IsSequence(hookRun'.done) /\ IsSequence(written')
        /\ Len(hookRun'.done) = Len(hookRun.done) + 1 /\ Len(written') = Len(written) + 1
        /\ \A i \in 1 .. Len(written) : hookRun'.done[i] = hookRun.done[i] /\ written'[i] = written[i]
        /\ hookRun'.done[Len(written) + 1] = a /\ written'[Len(written) + 1] = o
        /\ Len(written) \in Nat /\ Len(hookRun.done) = Len(written)
    BY <1>2, LongerSequence DEF HooksInv, AnswersFit
  <2>2. ASSUME NEW i \in 1 .. Len(written') PROVE hookRun'.done[i].rank = Strictness(written'[i])
    <3>1. CASE i \in 1 .. Len(written)
      BY <2>1, <3>1 DEF HooksInv, AnswersFit
    <3>2. CASE i = Len(written) + 1
      BY <1>1, <2>1, <3>2
    <3>3. QED
      BY <2>1, <3>1, <3>2
  <2>3. QED
    BY <1>2, <2>1, <2>2 DEF AnswersFit
<1>5. RunFits'
  BY <1>2, <1>3 DEF HooksInv, RunFits, hookFate
<1>6. DecidedFits'
  <2>1. toolCall' \in {"none", "pre", "post"}
    BY <1>2 DEF HooksInv, RunFits
  <2>2. QED
    BY <2>1 DEF DecidedFits
<1>7. AuditFits'
  BY <1>2 DEF HooksInv, AuditFits, PromptsOnly, hookFate
<1>8. QED
  BY <1>4, <1>5, <1>6, <1>7 DEF HooksInv

(* The strictest answer of a run. *)
LEMMA MergeFacts ==
    ASSUME HooksInv, hookRun # NoRun
    PROVE  LET rank == Merge(hookRun.done).rank
           IN  /\ rank \in 0 .. 2
               /\ rank = 2 => \E i \in 1 .. Len(written) : written[i] \in Deliberate
               /\ rank = 1 => \E i \in 1 .. Len(written) : written[i] = "ask"
               /\ rank < 2 => \A i \in 1 .. Len(written) : written[i] \notin Deliberate
               /\ rank < 1 => \A i \in 1 .. Len(written) : written[i] # "ask"
<1> DEFINE R == {0} \cup {hookRun.done[i].rank : i \in DOMAIN hookRun.done}
           rank == Merge(hookRun.done).rank
<1>1. /\ DOMAIN hookRun.done = 1 .. Len(written)
      /\ \A i \in 1 .. Len(written) : hookRun.done[i].rank = Strictness(written[i])
  <2>1. DOMAIN hookRun.done = 1 .. Len(hookRun.done)
    BY LongerSequence DEF HooksInv, AnswersFit
  <2>2. QED
    BY <2>1 DEF HooksInv, AnswersFit
<1>2. R = {0} \cup {Strictness(written[i]) : i \in 1 .. Len(written)}
  BY <1>1
<1>3. rank = Max(R)
  BY DEF Merge
<1> HIDE DEF R, rank
<1>4. R \subseteq 0 .. 2
  BY <1>2 DEF Strictness
<1>5. \E x \in R : \A y \in R : x >= y
  <2>1. CASE 2 \in R
    BY <1>4, <2>1
  <2>2. CASE 2 \notin R /\ 1 \in R
    BY <1>4, <2>2
  <2>3. CASE 2 \notin R /\ 1 \notin R
    <3>1. 0 \in R
      BY <1>2
    <3>2. \A y \in R : y = 0
      BY <1>4, <2>3
    <3>3. QED
      BY <3>1, <3>2
  <2>4. QED
    BY <2>1, <2>2, <2>3
<1>6. rank \in R /\ \A y \in R : rank >= y
  BY <1>3, <1>5 DEF Max
<1>7. rank \in 0 .. 2
  BY <1>4, <1>6
<1>8. rank = 2 => \E i \in 1 .. Len(written) : written[i] \in Deliberate
  BY <1>2, <1>6 DEF Strictness
<1>9. rank = 1 => \E i \in 1 .. Len(written) : written[i] = "ask"
  BY <1>2, <1>6 DEF Strictness
<1>10. rank < 2 => \A i \in 1 .. Len(written) : written[i] \notin Deliberate
  <2> SUFFICES ASSUME NEW i \in 1 .. Len(written), written[i] \in Deliberate PROVE ~(rank < 2)
    OBVIOUS
  <2>1. 2 \in R
    BY <1>2 DEF Strictness
  <2>2. QED
    BY <1>6, <1>7, <2>1
<1>11. rank < 1 => \A i \in 1 .. Len(written) : written[i] # "ask"
  <2> SUFFICES ASSUME NEW i \in 1 .. Len(written), written[i] = "ask" PROVE ~(rank < 1)
    OBVIOUS
  <2>1. Strictness(written[i]) = 1
    BY DEF Strictness, Deliberate
  <2>2. 1 \in R
    BY <1>2, <2>1
  <2>3. QED
    BY <1>6, <1>7, <2>2
<1>12. QED
  BY <1>7, <1>8, <1>9, <1>10, <1>11 DEF rank

(* The rows of a run are appended to the history, and to the log if there  *)
(* is one.                                                                 *)
LEMMA RecordKeeps ==
    ASSUME HooksInv, hookRun # NoRun, Record, logThere \in BOOLEAN,
           logThere' = TRUE \/ (logThere' = logThere)
    PROVE  AuditFits'
<1> DEFINE new == Rows(hookRun.done)
<1>1. PICK m \in Nat : DOMAIN hookRun.done = 1 .. m
  BY LongerSequence DEF HooksInv, AnswersFit
<1>2. new = [i \in 1 .. m |-> <<hookRun.on, hookRun.done[i].id, hookRun.done[i].outcome>>]
  BY <1>1 DEF Rows
<1>3. IsSequence(new) /\ Len(new) = m
  <2>1. new \in [1 .. m -> {new[i] : i \in 1 .. m}]
    BY <1>2
  <2> HIDE DEF new
  <2>2. new \in Seq({new[i] : i \in 1 .. m}) /\ Len(new) = m
    BY <2>1
  <2>3. QED
    BY <2>2 DEF IsSequence
<1>4. \A i \in 1 .. Len(new) : new[i][1] = hookRun.on
  BY <1>2, <1>3
<1> HIDE DEF new
<1>5. hooksRan' = hooksRan \o new /\ auditRows' = IF logThere THEN auditRows \o new ELSE auditRows
  BY DEF Record, new
<1>6. /\ IsSequence(hooksRan') /\ Len(hooksRan) \in Nat /\ Len(new) \in Nat
      /\ Len(hooksRan') = Len(hooksRan) + Len(new)
      /\ \A i \in 1 .. Len(hooksRan) : hooksRan'[i] = hooksRan[i]
      /\ \A i \in 1 .. Len(new) : hooksRan'[Len(hooksRan) + i] = new[i]
  <2>1. IsSequence(hooksRan)
    BY DEF HooksInv, AuditFits
  <2>2. JoinOf(hooksRan \o new, hooksRan, new)
    BY <1>3, <2>1, ConcatAre
  <2>3. JoinOf(hooksRan', hooksRan, new)
    BY <1>5, <2>2
  <2>4. QED
    BY <2>3 DEF JoinOf
<1>7. CASE logThere
  <2>1. /\ IsSequence(auditRows') /\ Len(auditRows) \in Nat
        /\ Len(auditRows') = Len(auditRows) + Len(new)
        /\ \A i \in 1 .. Len(auditRows) : auditRows'[i] = auditRows[i]
        /\ \A i \in 1 .. Len(new) : auditRows'[Len(auditRows) + i] = new[i]
    <3>1. IsSequence(auditRows)
      BY DEF HooksInv, AuditFits
    <3>2. auditRows' = auditRows \o new
      BY <1>5, <1>7
    <3>3. JoinOf(auditRows \o new, auditRows, new)
      BY <1>3, <3>1, ConcatAre
    <3>4. JoinOf(auditRows', auditRows, new)
      BY <3>2, <3>3
    <3>5. QED
      BY <3>4 DEF JoinOf
  <2>2. PICK n \in 0 .. Len(hooksRan) :
          /\ PromptsOnly(hooksRan, n)
          /\ Len(auditRows) = Len(hooksRan) - n
          /\ \A i \in 1 .. Len(auditRows) : auditRows[i] = hooksRan[n + i]
    BY DEF HooksInv, AuditFits
  <2>3. n \in 0 .. Len(hooksRan') /\ Len(auditRows') = Len(hooksRan') - n
    BY <1>6, <2>1, <2>2
  <2>4. PromptsOnly(hooksRan', n)
    <3>1. ASSUME NEW i \in 1 .. n PROVE hooksRan'[i][1] = "UserPromptSubmit"
      <4>1. i \in 1 .. Len(hooksRan) /\ hooksRan[i][1] = "UserPromptSubmit"
        BY <2>2 DEF PromptsOnly
      <4>2. hooksRan'[i] = hooksRan[i]
        BY <1>6, <4>1
      <4>3. QED
        BY <4>1, <4>2
    <3>2. QED
      BY <3>1 DEF PromptsOnly
  <2>5. ASSUME NEW i \in 1 .. Len(auditRows') PROVE auditRows'[i] = hooksRan'[n + i]
    <3>1. CASE i \in 1 .. Len(auditRows)
      <4>1. n + i \in 1 .. Len(hooksRan)
        BY <1>6, <2>1, <2>2, <3>1
      <4>2. QED
        BY <1>6, <2>1, <2>2, <3>1, <4>1
    <3>2. CASE i \notin 1 .. Len(auditRows)
      <4> DEFINE j == i - Len(auditRows)
      <4>1. j \in 1 .. Len(new) /\ i = Len(auditRows) + j /\ n + i = Len(hooksRan) + j
        BY <1>6, <2>1, <2>2, <3>2
      <4> HIDE DEF j
      <4>2. QED
        BY <1>6, <2>1, <4>1
    <3>3. QED
      BY <3>1, <3>2
  <2>6. QED
    BY <1>6, <1>7, <2>1, <2>3, <2>4, <2>5 DEF AuditFits
<1>8. CASE ~logThere
  <2>1. /\ auditRows = <<>> /\ auditRows' = <<>> /\ PromptsOnly(hooksRan, Len(hooksRan))
        /\ hookRun.on = "UserPromptSubmit"
    BY <1>5, <1>8 DEF HooksInv, AuditFits, RunFits
  <2>2. PromptsOnly(hooksRan', Len(hooksRan'))
    <3> SUFFICES ASSUME NEW i \in 1 .. Len(hooksRan') PROVE hooksRan'[i][1] = "UserPromptSubmit"
      BY DEF PromptsOnly
    <3>1. CASE i \in 1 .. Len(hooksRan)
      BY <1>6, <2>1, <3>1 DEF PromptsOnly
    <3>2. CASE i \notin 1 .. Len(hooksRan)
      <4> DEFINE j == i - Len(hooksRan)
      <4>1. j \in 1 .. Len(new) /\ i = Len(hooksRan) + j
        BY <1>6, <3>2
      <4> HIDE DEF j
      <4>2. QED
        BY <1>4, <1>6, <2>1, <4>1
    <3>3. QED
      BY <3>1, <3>2
  <2>3. Len(auditRows') = 0 /\ Len(hooksRan') \in Nat
    BY <1>6, <2>1
  <2>4. Len(hooksRan') \in 0 .. Len(hooksRan') /\ Len(auditRows') = Len(hooksRan') - Len(hooksRan')
    BY <2>3
  <2>5. QED
    BY <1>6, <2>1, <2>2, <2>3, <2>4, EmptyIsSequence DEF AuditFits
<1>9. QED
  BY <1>7, <1>8

(* A run is over and what it decided stands. *)
LEMMA DecisionKeeps ==
    ASSUME HooksInv, hookRun # NoRun, Record, logThere \in BOOLEAN, hookRun' = NoRun, written' = written,
           logThere' = TRUE \/ (logThere' = logThere /\ hookRun.on # "UserPromptSubmit") \/
             (logThere' = logThere /\ toolCall' = "refused"),
           \/ toolCall' = toolCall /\ toolCall = "none"
           \/ toolCall' \in {"refused", "blocked"} /\ Merge(hookRun.done).rank = 2
           \/ toolCall' = "body" /\ Merge(hookRun.done).rank = 0
           \/ toolCall' = "ask" /\ Merge(hookRun.done).rank = 1
           \/ toolCall' = "over"
    PROVE  HooksInv'
<1>1. AuditFits'
  BY RecordKeeps
<1>2. AnswersFit'
  BY EmptyIsSequence DEF HooksInv, AnswersFit, NoRun
<1>3. RunFits'
  BY DEF HooksInv, RunFits
<1>4. DecidedFits'
  <2>1. /\ Merge(hookRun.done).rank = 2 => \E i \in 1 .. Len(written) : written[i] \in Deliberate
        /\ Merge(hookRun.done).rank = 1 => \E i \in 1 .. Len(written) : written[i] = "ask"
        /\ Merge(hookRun.done).rank \in {0, 1} => \A i \in 1 .. Len(written) : written[i] \notin Deliberate
        /\ Merge(hookRun.done).rank = 0 => \A i \in 1 .. Len(written) : written[i] # "ask"
    BY MergeFacts
  <2>2. QED
    BY <2>1 DEF DecidedFits
<1>5. QED
  BY <1>1, <1>2, <1>3, <1>4 DEF HooksInv

LEMMA HooksStep == HooksInv /\ [HooksNext]_hookVars => HooksInv'
<1> SUFFICES ASSUME HooksInv, [HooksNext]_hookVars PROVE HooksInv'
  OBVIOUS
<1>0. /\ logThere \in BOOLEAN /\ DOMAIN hookRun = {"on", "todo", "done", "at", "spent", "waited"}
      /\ hookRun = NoRun => hookRun.at = "idle"
      /\ toolCall \in {"ask", "body", "allowed"} => logThere
  BY DEF HooksInv, RunFits, AnswersFit, NoRun
<1>1. CASE CreateSession
  BY <1>0, <1>1, BeginsKeeps DEF CreateSession
<1>2. CASE SubmitPrompt
  BY <1>0, <1>2, BeginsKeeps DEF SubmitPrompt, hookFate
<1>3. ASSUME NEW t, CallTool(t) PROVE HooksInv'
  BY <1>0, <1>3, BeginsKeeps DEF CallTool, hookFate
<1>4. ASSUME NEW yes, HumanAnswers(yes) PROVE HooksInv'
  <2>1. /\ toolCall = "ask" /\ UNCHANGED <<hookRun, written, hookFate>>
        /\ toolCall' \in {"allowed", "refused"} /\ logThere
    BY <1>0, <1>4 DEF HumanAnswers
  <2>2. AnswersFit'
    BY <2>1 DEF HooksInv, AnswersFit
  <2>3. RunFits'
    BY <2>1 DEF HooksInv, RunFits, hookFate
  <2>4. DecidedFits'
    BY <2>1 DEF HooksInv, DecidedFits
  <2>5. AuditFits'
    BY <2>1 DEF HooksInv, AuditFits, PromptsOnly, hookFate
  <2>6. QED
    BY <2>2, <2>3, <2>4, <2>5 DEF HooksInv
<1>5. ASSUME NEW t, ToolReturns(t) PROVE HooksInv'
  BY <1>0, <1>5, BeginsKeeps DEF ToolReturns, hookFate
<1>6. CASE EndSession
  BY <1>0, <1>6, BeginsKeeps DEF EndSession, hookFate
<1>7. ASSUME NEW o, Answered(o), hookRun.at \in {"spawn", "wait"} PROVE HooksInv'
  BY <1>0, <1>7, AnsweredKeeps
<1>8. CASE HookUnborn \/ HookLate \/ \E o \in Outputs \cup {"io"} : HookEnds(o)
  BY <1>7, <1>8 DEF HookUnborn, HookLate, HookEnds
<1>9. ASSUME hookRun # NoRun, NEW r, r \in {"stdin", "wait"}, hookRun'.at = r, DOMAIN hookRun' = DOMAIN hookRun,
             hookRun'.on = hookRun.on, hookRun'.done = hookRun.done, UNCHANGED <<written, hookFate, toolCall>>
      PROVE  HooksInv'
  <2>1. hookRun' # NoRun
    BY <1>9 DEF NoRun
  <2>2. QED
    BY <1>9, <2>1, RunGoesOn
<1>10. CASE HookStarts \/ StdinTaken
  BY <1>0, <1>9, <1>10 DEF HookStarts, StdinTaken
<1>11. CASE HookClock
  BY <1>0, <1>9, <1>11 DEF HookClock
<1>12. ASSUME NEW on, RunOver(on) PROVE hookRun # NoRun /\ hookRun.on = on
  BY <1>0, <1>12 DEF RunOver
<1>13. CASE SessionStarted
  <2>1. toolCall = "none"
    BY <1>12, <1>13 DEF SessionStarted, HooksInv, RunFits
  <2>2. hookRun # NoRun /\ hookRun.on = "SessionStart"
    BY <1>12, <1>13 DEF SessionStarted
  <2>3. Record /\ hookRun' = NoRun /\ written' = written /\ logThere' = logThere /\ toolCall' = toolCall
    BY <1>13 DEF SessionStarted
  <2>4. QED
    BY <1>0, <2>1, <2>2, <2>3, DecisionKeeps
<1>14. CASE PromptDecided
  <2>1. toolCall = "none"
    BY <1>12, <1>14 DEF PromptDecided, HooksInv, RunFits
  <2>2. QED
    BY <1>0, <1>12, <1>14, <2>1, DecisionKeeps DEF PromptDecided
<1>15. CASE CallDecided
  <2>1. Merge(hookRun.done).rank \in 0 .. 2
    BY <1>12, <1>15, MergeFacts DEF CallDecided
  <2>2. hookRun # NoRun /\ hookRun.on # "UserPromptSubmit"
    BY <1>12, <1>15 DEF CallDecided
  <2>3. toolCall' = <<"body", "ask", "refused">>[Merge(hookRun.done).rank + 1]
    BY <1>15 DEF CallDecided
  <2>4. \/ toolCall' = "body" /\ Merge(hookRun.done).rank = 0
        \/ toolCall' = "ask" /\ Merge(hookRun.done).rank = 1
        \/ toolCall' = "refused" /\ Merge(hookRun.done).rank = 2
    BY <2>1, <2>3
  <2>5. Record /\ hookRun' = NoRun /\ written' = written /\ logThere' = logThere
    BY <1>15 DEF CallDecided
  <2>6. QED
    BY <1>0, <2>2, <2>4, <2>5, DecisionKeeps
<1>16. CASE ResultJudged
  <2>1. hookRun # NoRun /\ hookRun.on = "PostToolUse"
    BY <1>12, <1>16 DEF ResultJudged
  <2>2. /\ Record /\ hookRun' = NoRun /\ written' = written /\ logThere' = logThere
        /\ toolCall' = IF Merge(hookRun.done).rank = 2 THEN "blocked" ELSE "over"
    BY <1>16 DEF ResultJudged
  <2>3. QED
    BY <1>0, <2>1, <2>2, DecisionKeeps
<1>17. CASE SessionEnded
  <2>1. toolCall = "none"
    BY <1>12, <1>17 DEF SessionEnded, HooksInv, RunFits
  <2>2. hookRun # NoRun /\ hookRun.on = "SessionEnd"
    BY <1>12, <1>17 DEF SessionEnded
  <2>3. Record /\ hookRun' = NoRun /\ written' = written /\ logThere' = logThere /\ toolCall' = toolCall
    BY <1>17 DEF SessionEnded
  <2>4. QED
    BY <1>0, <2>1, <2>2, <2>3, DecisionKeeps
<1>18. CASE UNCHANGED hookVars
  BY <1>18 DEF hookVars, HooksInv, AnswersFit, RunFits, DecidedFits, AuditFits, PromptsOnly
<1>19. QED
  BY <1>1, <1>2, <1>3, <1>4, <1>5, <1>6, <1>8, <1>10, <1>11, <1>13, <1>14, <1>15, <1>16, <1>17, <1>18 DEF HooksNext

LEMMA HooksSafe == HooksInv => HooksSound
<1> SUFFICES ASSUME HooksInv PROVE HooksSound
  OBVIOUS
<1>1. DOMAIN written = 1 .. Len(written)
  BY LongerSequence DEF HooksInv, AnswersFit
<1>2. BrokenAbstains
  BY <1>1 DEF HooksInv, DecidedFits, BrokenAbstains
<1>3. HooksAudited
  <2>1. PICK n \in 0 .. Len(hooksRan) :
          /\ PromptsOnly(hooksRan, n)
          /\ Len(auditRows) = Len(hooksRan) - n
          /\ \A i \in 1 .. Len(auditRows) : auditRows[i] = hooksRan[n + i]
    BY DEF HooksInv, AuditFits
  <2>2. PICK S : hooksRan \in Seq(S) /\ auditRows \in Seq(S)
    BY TwoSequences DEF HooksInv, AuditFits
  <2>3. Len(hooksRan) \in Nat /\ n \in Nat /\ n <= Len(hooksRan)
    BY <2>2
  <2>4. SubSeq(hooksRan, n + 1, Len(hooksRan)) \in Seq(S) /\ Len(SubSeq(hooksRan, n + 1, Len(hooksRan))) = Len(hooksRan) - n
        /\ \A i \in 1 .. Len(hooksRan) - n : SubSeq(hooksRan, n + 1, Len(hooksRan))[i] = hooksRan[n + i]
    BY <2>2, <2>3
  <2>5. auditRows = SubSeq(hooksRan, n + 1, Len(hooksRan))
    BY <2>1, <2>2, <2>4, SeqEqual
  <2>6. QED
    BY <2>1, <2>5 DEF HooksAudited, PromptsOnly
<1>4. QED
  BY <1>2, <1>3 DEF HooksSound

(* A hook that fails abstains, a refusal that no person spoke is one a     *)
(* hook meant, what a hook meant to refuse does not run, and the log holds *)
(* a row of every hook that ran for it (hooks.rs).                         *)
THEOREM HooksKept == HooksSpec => []HooksSound
<1>1. HooksInv /\ [HooksNext]_hookVars => HooksInv'
  BY HooksStep
<1>2. QED
  BY HooksInitially, HooksSafe, <1>1, PTL DEF HooksSpec

-----------------------------------------------------------------------------
(* The catalogue. *)

CatSpec == CatInit /\ [][CatNext]_catVars

(* The registry answers to every built-in name with the Rust skill. *)
BuiltInsBound ==
    \A n \in RustSkills \cup {"todo-write"} : n \in DOMAIN registry /\ registry[n] = "rust"

(* The running turn: its view is of the registry that is up, keeps the     *)
(* harness's own controls, and its request announced that view.            *)
WorkFits ==
    \/ working = NoWork
    \/ /\ working.mode \in Modes3
       /\ working.view \subseteq DOMAIN registry
       /\ (Controls \cup {"ask-user"}) \cap DOMAIN registry \subseteq working.view
       /\ working.told = Announced(working.view, working.mode)

(* What a text turn ran it had announced. *)
RanFits == working.mode = "text" => ranNow \in working.told \cup {"run-code", "none"}

(* The selection in force is the one on record. *)
CatInv == BuiltInsBound /\ WorkFits /\ RanFits /\ preset = presetLog

LEMMA BuiltInsOfDisk ==
    ASSUME NEW scanned, NEW r \in Registries(scanned)
    PROVE  \A n \in RustSkills \cup {"todo-write"} : n \in DOMAIN r /\ r[n] = "rust"
<1> DEFINE docs == RegisterIfAbsent(scanned)
           names == {d.name : d \in docs}
           kindOf(d) == IF d.hidden THEN "hidden" ELSE "markdown"
<1>1. PICK pick \in {f \in [names -> docs] : \A n \in names : f[n].name = n} :
        r = [n \in Built(scanned) \cup names |-> IF n \in DOMAIN pick THEN kindOf(pick[n]) ELSE "rust"]
  BY DEF Registries
<1>2. DOMAIN pick = names
  OBVIOUS
<1>3. ASSUME NEW n \in Built(scanned) PROVE n \notin names
  BY DEF RegisterIfAbsent
<1> HIDE DEF docs, names, kindOf
<1>4. RustSkills \cup {"todo-write"} \subseteq Built(scanned)
  BY DEF Built
<1>5. QED
  BY <1>1, <1>2, <1>3, <1>4

LEMMA CatInitially == CatInit => CatInv
<1> SUFFICES ASSUME CatInit PROVE CatInv
  OBVIOUS
<1>1. BuiltInsBound
  BY BuiltInsOfDisk DEF CatInit, BuiltInsBound
<1>2. QED
  BY <1>1 DEF CatInit, CatInv, WorkFits, RanFits, NoWork

(* What a view takes and leaves. *)
LEMMA ViewFacts ==
    ASSUME NEW tools
    PROVE  /\ ViewOf(tools) \subseteq DOMAIN registry
           /\ (Controls \cup {"ask-user"}) \cap DOMAIN registry \subseteq ViewOf(tools)
BY DEF ViewOf, RestrictedTo

LEMMA StartTurnKeeps ==
    ASSUME CatInv, NEW name, NEW mode \in Modes3, StartTurn(name, mode) PROVE CatInv'
<1>1. registry' = registry /\ ranNow' = "none"
  BY DEF StartTurn
<1>2. preset' = presetLog'
  BY DEF StartTurn, Select, CatInv
<1>3. PICK view, who : /\ working' = [view |-> view, persona |-> who, mode |-> mode, told |-> Announced(view, mode)]
                       /\ view = DOMAIN registry \/ \E tools : view = ViewOf(tools)
  BY DEF StartTurn
<1>4. /\ view \subseteq DOMAIN registry
      /\ (Controls \cup {"ask-user"}) \cap DOMAIN registry \subseteq view
  BY <1>3, ViewFacts
<1>5. Announced(view, mode)' = Announced(view, mode)
  BY <1>1 DEF Announced, Catalogued, ToolsArray, Offered
<1>6. WorkFits'
  <2>1. /\ working'.mode = mode /\ working'.view = view /\ working'.told = Announced(view, mode)
    BY <1>3
  <2>2. Announced(working.view, working.mode)' = Announced(view, mode)
    BY <1>1, <2>1 DEF Announced, Catalogued, ToolsArray, Offered
  <2>3. QED
    BY <1>1, <1>4, <2>1, <2>2 DEF WorkFits
<1>7. BuiltInsBound'
  BY <1>1 DEF CatInv, BuiltInsBound
<1>8. QED
  BY <1>1, <1>2, <1>6, <1>7 DEF CatInv, RanFits

(* A turn that runs a tool the dispatcher takes, or that goes on. *)
LEMMA WorkGoesOn ==
    ASSUME CatInv, working # NoWork, registry' = registry, working' = working,
           UNCHANGED <<preset, presetLog>>,
           ranNow' = ranNow \/ \E n : Dispatches(n) /\ ranNow' = n
    PROVE  CatInv'
<1>1. WorkFits'
  <2>1. Announced(working.view, working.mode)' = Announced(working.view, working.mode)
    BY DEF Announced, Catalogued, ToolsArray, Offered
  <2>2. QED
    BY <2>1 DEF CatInv, WorkFits
<1>2. RanFits'
  <2>1. ASSUME NEW n, Dispatches(n), ranNow' = n, working.mode = "text"
        PROVE  n \in working.told \cup {"run-code", "none"}
    BY <2>1 DEF CatInv, WorkFits, Dispatches, Resolves, Announced, Catalogued, Offered
  <2>2. QED
    BY <2>1 DEF CatInv, RanFits
<1>3. BuiltInsBound'
  BY DEF CatInv, BuiltInsBound
<1>4. QED
  BY <1>1, <1>2, <1>3 DEF CatInv

LEMMA CatStep == CatInv /\ [CatNext]_catVars => CatInv'
<1> SUFFICES ASSUME CatInv, [CatNext]_catVars PROVE CatInv'
  OBVIOUS
<1>0. ASSUME UNCHANGED <<registry, working, ranNow, preset, presetLog>> PROVE CatInv'
  BY <1>0 DEF CatInv, BuiltInsBound, WorkFits, RanFits, Announced, Catalogued, ToolsArray, Offered
<1>1. CASE UserEditsFile
  BY <1>0, <1>1 DEF UserEditsFile
<1>2. CASE BackendStarts
  <2>1. BuiltInsBound'
    BY <1>2, BuiltInsOfDisk DEF BackendStarts, BuiltInsBound
  <2>2. working' = NoWork /\ preset' = presetLog'
    BY <1>2 DEF BackendStarts, CatInv
  <2>3. WorkFits' /\ RanFits'
    BY <2>2 DEF WorkFits, RanFits, NoWork
  <2>4. QED
    BY <2>1, <2>2, <2>3 DEF CatInv
<1>3. ASSUME NEW n, NEW mode \in Modes3, StartTurn(n, mode) PROVE CatInv'
  BY <1>3, StartTurnKeeps
<1>4. ASSUME NEW n, SetSessionAgent(n) PROVE CatInv'
  <2>1. UNCHANGED <<registry, working, ranNow>> /\ preset' = presetLog'
    BY <1>4 DEF SetSessionAgent, Select, CatInv
  <2>2. QED
    BY <2>1 DEF CatInv, BuiltInsBound, WorkFits, RanFits, Announced, Catalogued, ToolsArray, Offered
<1>5. ASSUME NEW n, ModelCalls(n) PROVE CatInv'
  BY <1>5, WorkGoesOn DEF ModelCalls
<1>6. ASSUME NEW stem, ModelCreates(stem) PROVE CatInv'
  BY <1>6, WorkGoesOn DEF ModelCreates
<1>7. ASSUME NEW ends, Answers(ends) PROVE CatInv'
  <2>1. CASE working' = working
    BY <1>7, <2>1, WorkGoesOn DEF Answers
  <2>2. CASE working' = NoWork
    BY <1>7, <2>2 DEF Answers, CatInv, BuiltInsBound, WorkFits, RanFits, NoWork
  <2>3. QED
    BY <1>7, <2>1, <2>2 DEF Answers
<1>8. CASE UNCHANGED catVars
  BY <1>0, <1>8 DEF catVars
<1>9. QED
  BY <1>1, <1>2, <1>3, <1>4, <1>5, <1>6, <1>7, <1>8 DEF CatNext

LEMMA CatSafe == CatInv => CatalogueSound
<1> SUFFICES ASSUME CatInv PROVE CatalogueSound
  OBVIOUS
<1>1. BuiltinsStay
  BY DEF CatInv, BuiltInsBound, BuiltinsStay
<1>2. TextRunsOffered
  <2>1. SUFFICES ASSUME working.mode = "text" PROVE \A n \in working.told : Dispatches(n)
    BY DEF CatInv, RanFits, TextRunsOffered
  <2>2. working # NoWork
    BY <2>1 DEF NoWork
  <2>3. working.told = Offered(working.view) \ {"run-code"}
    BY <2>1, <2>2 DEF CatInv, WorkFits, Announced, Catalogued
  <2>4. QED
    BY <2>1, <2>3 DEF Dispatches, Resolves, Offered
<1>3. ControlsReachable
  BY DEF CatInv, WorkFits, ControlsReachable
<1>4. QED
  BY <1>1, <1>2, <1>3 DEF CatalogueSound

(* Files add tools and take none of the harness's own away: the built-in   *)
(* names answer with the Rust skills, a text turn runs what it announced,  *)
(* and no preset hides a control (registry.rs, preset.rs, chat.rs).        *)
THEOREM CatalogueKept == CatSpec => []CatalogueSound
<1>1. CatInv /\ [CatNext]_catVars => CatInv'
  BY CatStep
<1>2. QED
  BY CatInitially, CatSafe, <1>1, PTL DEF CatSpec

(* Once a session has a reply its agent never changes again, by a request, *)
(* a typed name or a restart: the selection in memory is the one on        *)
(* record, so a start of the backend restores it (chat.rs).                *)
THEOREM AgentIsFixed == CatSpec => AgentFixed
<1>1. CatInv /\ [CatNext]_catVars => [replied => preset' = preset]_catVars
  <2> SUFFICES ASSUME CatInv, CatNext, replied PROVE preset' = preset
    OBVIOUS
  <2>1. ASSUME NEW n, Select(n) PROVE preset' = preset
    BY <2>1 DEF Select, MaySelect
  <2>2. CASE BackendStarts
    BY <2>2 DEF BackendStarts, CatInv
  <2>3. ASSUME NEW n, NEW mode \in Modes3, StartTurn(n, mode) PROVE preset' = preset
    BY <2>1, <2>3 DEF StartTurn
  <2>4. QED
    BY <2>1, <2>2, <2>3 DEF CatNext, UserEditsFile, SetSessionAgent, ModelCalls, ModelCreates, Answers
<1>2. CatInv /\ [CatNext]_catVars => CatInv'
  BY CatStep
<1>3. QED
  BY CatInitially, <1>1, <1>2, PTL DEF CatSpec, AgentFixed

-----------------------------------------------------------------------------
(* The MCP servers. *)

McpSpec == McpInit /\ [][McpNext]_mcpVars

-----------------------------------------------------------------------------
(* Where load_all is. *)
PlaceFits ==
    /\ loadAt \in {"spawn", "init", "list", "up"}
    /\ nextFile \in 1 .. Len(McpFiles) + 1
    /\ loadAt # "up" => nextFile <= Len(McpFiles)
    /\ loadAt = "up" => nextFile = Len(McpFiles) + 1
    /\ loadAt \in {"init", "list"} => File.state = "enabled"
    /\ mcpCall # NoMcpCall => loadAt = "up"

(* The files it is through with. *)
FilesFit ==
    /\ \A i \in 1 .. nextFile - 1 :
          McpFiles[i].state = "disabled" <=> McpFiles[i].stem \notin mcpWarnings \cup mcpServers
    /\ \A i \in nextFile .. Len(McpFiles) : McpFiles[i].stem \notin mcpWarnings \cup mcpServers
    /\ mcpWarnings \cap mcpServers = {}

(* The tools it has. *)
ToolsFit == IsSequence(mcpTools) /\ (loadAt = "up" => registered = RegisterAll(mcpTools))

(* How long it waited for the server in hand. *)
ClockFits ==
    /\ mcpClock \in Nat /\ connectTime \in Nat
    /\ loadAt \in {"spawn", "up"} => connectTime = 0
    /\ loadAt = "init" => connectTime = mcpClock /\ mcpClock <= ConnectTimeout
    /\ loadAt = "list" => connectTime <= ConnectTimeout + mcpClock /\ mcpClock <= ConnectTimeout

(* The inductive invariant. *)
McpInv == PlaceFits /\ FilesFit /\ ToolsFit /\ ClockFits

LEMMA McpInitially == McpInit => McpInv
<1> SUFFICES ASSUME McpInit PROVE McpInv
  OBVIOUS
<1> USE McpAssumption
<1>1. PlaceFits
  BY DEF McpInit, PlaceFits
<1>2. FilesFit
  BY DEF McpInit, FilesFit
<1>3. ToolsFit
  BY EmptyIsSequence DEF McpInit, ToolsFit
<1>4. ClockFits
  BY DEF McpInit, ClockFits
<1>5. QED
  BY <1>1, <1>2, <1>3, <1>4 DEF McpInv

(* The file in hand is done with: skipped, warned about or connected.      *)
LEMMA FileDone ==
    ASSUME McpInv, loadAt # "up", NEW tools, OnToNext(tools), IsSequence(tools),
           NEW w \in {{}, {File.stem}}, NEW s \in {{}, {File.stem}},
           mcpWarnings' = mcpWarnings \cup w, mcpServers' = mcpServers \cup s,
           (File.state = "disabled") <=> (w = {} /\ s = {}), w = {} \/ s = {}
    PROVE  McpInv'
<1> DEFINE N == Len(McpFiles)
<1>0. N \in Nat /\ DOMAIN McpFiles = 1 .. N
  BY McpAssumption
<1>1. /\ nextFile \in 1 .. N /\ nextFile' = nextFile + 1 /\ mcpTools' = tools
      /\ mcpClock' = 0 /\ connectTime' = 0 /\ mcpCall' = mcpCall /\ mcpCall = NoMcpCall
      /\ \/ nextFile = N /\ loadAt' = "up" /\ registered' = RegisterAll(tools)
         \/ nextFile # N /\ loadAt' = "spawn"
  <2>1. nextFile \in 1 .. N /\ mcpCall = NoMcpCall
    BY <1>0 DEF McpInv, PlaceFits
  <2>2. /\ nextFile' = nextFile + 1 /\ mcpTools' = tools
        /\ mcpClock' = 0 /\ connectTime' = 0 /\ mcpCall' = mcpCall
        /\ IF nextFile = N THEN loadAt' = "up" /\ registered' = RegisterAll(tools)
           ELSE loadAt' = "spawn" /\ UNCHANGED registered
    BY DEF OnToNext
  <2>3. QED
    BY <2>1, <2>2
<1> HIDE DEF N
<1>2. PlaceFits'
  <2>1. nextFile' \in 1 .. N + 1 /\ (loadAt' # "up" => nextFile' <= N) /\ (loadAt' = "up" => nextFile' = N + 1)
    BY <1>0, <1>1
  <2>2. loadAt' \in {"spawn", "up"} /\ mcpCall' = NoMcpCall
    BY <1>1
  <2>3. QED
    BY <2>1, <2>2 DEF PlaceFits, N
<1>3. FilesFit'
  <2>0. nextFile \in DOMAIN McpFiles /\ nextFile \in Nat
    BY <1>0, <1>1
  <2>1. ASSUME NEW i \in DOMAIN McpFiles, i # nextFile
        PROVE  /\ McpFiles[i].stem # File.stem
               /\ McpFiles[i].stem \notin mcpWarnings' \cup mcpServers' <=> McpFiles[i].stem \notin mcpWarnings \cup mcpServers
    BY <2>0, <2>1, McpAssumption DEF File
  <2>2. File.stem \notin mcpWarnings \cup mcpServers
    <3>1. nextFile \in nextFile .. N
      BY <1>0, <1>1
    <3>2. QED
      BY <3>1 DEF McpInv, FilesFit, File, N
  <2>3. ASSUME NEW i \in 1 .. nextFile' - 1
        PROVE  McpFiles[i].state = "disabled" <=> McpFiles[i].stem \notin mcpWarnings' \cup mcpServers'
    <3>1. CASE i = nextFile
      BY <2>2, <3>1 DEF File
    <3>2. CASE i # nextFile
      <4>1. i \in 1 .. nextFile - 1 /\ i \in DOMAIN McpFiles
        BY <1>0, <1>1, <3>2
      <4>2. QED
        BY <2>1, <3>2, <4>1 DEF McpInv, FilesFit
    <3>3. QED
      BY <3>1, <3>2
  <2>4. ASSUME NEW i \in nextFile' .. N PROVE McpFiles[i].stem \notin mcpWarnings' \cup mcpServers'
    <3>1. i \in nextFile .. N /\ i \in DOMAIN McpFiles /\ i # nextFile
      BY <1>0, <1>1
    <3>2. McpFiles[i].stem \notin mcpWarnings \cup mcpServers
      BY <3>1 DEF McpInv, FilesFit, N
    <3>3. QED
      BY <2>1, <3>1, <3>2
  <2>5. mcpWarnings' \cap mcpServers' = {}
    BY <2>2 DEF McpInv, FilesFit
  <2>6. QED
    BY <2>3, <2>4, <2>5 DEF FilesFit, N
<1>4. ToolsFit'
  BY <1>1 DEF ToolsFit
<1>5. ClockFits'
  BY <1>1 DEF ClockFits
<1>6. QED
  BY <1>2, <1>3, <1>4, <1>5 DEF McpInv

LEMMA ListedTools ==
    ASSUME McpInv, NEW tools \in ToolLists
    PROVE  IsSequence(mcpTools \o [i \in DOMAIN tools |-> [server |-> File.stem, remote |-> tools[i]]])
<1> DEFINE new == [i \in DOMAIN tools |-> [server |-> File.stem, remote |-> tools[i]]]
<1>1. PICK n \in Nat : DOMAIN tools = 1 .. n
  BY McpAssumption
<1>2. new \in [1 .. n -> {new[i] : i \in 1 .. n}]
  BY <1>1
<1> HIDE DEF new
<1>3. new \in Seq({new[i] : i \in 1 .. n})
  BY <1>2
<1>4. IsSequence(new)
  BY <1>3 DEF IsSequence
<1>5. JoinOf(mcpTools \o new, mcpTools, new)
  BY <1>4, ConcatAre DEF McpInv, ToolsFit
<1>6. QED
  BY <1>5 DEF JoinOf, new

LEMMA McpStep == McpInv /\ [McpNext]_mcpVars => McpInv'
<1> SUFFICES ASSUME McpInv, [McpNext]_mcpVars PROVE McpInv'
  OBVIOUS
<1> USE McpAssumption
<1>1. CASE ReadsFile
  <2> DEFINE w == IF File.state = "malformed" THEN {File.stem} ELSE {}
  <2>1. /\ loadAt # "up" /\ OnToNext(mcpTools) /\ IsSequence(mcpTools)
        /\ mcpWarnings' = mcpWarnings \cup w /\ mcpServers' = mcpServers \cup {}
        /\ w \in {{}, {File.stem}} /\ (File.state = "disabled" <=> w = {})
    BY <1>1 DEF ReadsFile, McpInv, ToolsFit
  <2> HIDE DEF w
  <2>2. QED
    BY <2>1, FileDone
<1>2. CASE SpawnsServer
  <2>1. PlaceFits' /\ FilesFit' /\ ToolsFit' /\ ClockFits'
    BY <1>2 DEF SpawnsServer, McpInv, PlaceFits, FilesFit, ToolsFit, ClockFits, File, mcpCallVars
  <2>2. QED
    BY <2>1 DEF McpInv
<1>3. CASE ServerInitialises
  <2>1. PlaceFits' /\ FilesFit' /\ ToolsFit' /\ ClockFits'
    BY <1>3 DEF ServerInitialises, McpInv, PlaceFits, FilesFit, ToolsFit, ClockFits, File, mcpCallVars
  <2>2. QED
    BY <2>1 DEF McpInv
<1>4. CASE ConnectFails
  <2>1. /\ loadAt # "up" /\ OnToNext(mcpTools) /\ IsSequence(mcpTools) /\ File.state # "disabled"
        /\ mcpWarnings' = mcpWarnings \cup {File.stem} /\ mcpServers' = mcpServers \cup {}
    BY <1>4 DEF ConnectFails, McpInv, ToolsFit, PlaceFits
  <2>2. QED
    BY <2>1, FileDone
<1>5. CASE McpTimePasses
  <2>1. \/ /\ loadAt \in {"init", "list"} /\ mcpClock < ConnectTimeout /\ connectTime' = connectTime + 1
           /\ mcpClock' = mcpClock + 1
        \/ loadAt = "up" /\ connectTime' = connectTime /\ mcpClock' = mcpClock + 1
    BY <1>5 DEF McpTimePasses, McpInv, PlaceFits
  <2>2. UNCHANGED <<loadAt, nextFile, mcpTools, mcpWarnings, mcpServers, mcpCallVars>>
    BY <1>5 DEF McpTimePasses
  <2>3. PlaceFits' /\ FilesFit' /\ ToolsFit'
    BY <2>2 DEF McpInv, PlaceFits, FilesFit, ToolsFit, File, mcpCallVars
  <2>4. ClockFits'
    BY <2>1, <2>2 DEF McpInv, ClockFits
  <2>5. QED
    BY <2>3, <2>4 DEF McpInv
<1>6. ASSUME NEW tools \in ToolLists, ServerLists(tools) PROVE McpInv'
  <2> DEFINE more == mcpTools \o [i \in DOMAIN tools |-> [server |-> File.stem, remote |-> tools[i]]]
  <2>1. /\ loadAt # "up" /\ OnToNext(more) /\ File.state # "disabled"
        /\ mcpWarnings' = mcpWarnings \cup {} /\ mcpServers' = mcpServers \cup {File.stem}
    BY <1>6 DEF ServerLists, McpInv, PlaceFits
  <2>2. IsSequence(more)
    BY ListedTools
  <2> HIDE DEF more
  <2>3. QED
    BY <2>1, <2>2, FileDone
<1>7. ASSUME UNCHANGED loadVars, mcpClock' \in Nat, mcpCall' = NoMcpCall \/ loadAt = "up",
             mcpClock' = mcpClock \/ loadAt = "up"
      PROVE  McpInv'
  <2>1. PlaceFits' /\ FilesFit' /\ ToolsFit' /\ ClockFits'
    BY <1>7 DEF loadVars, McpInv, PlaceFits, FilesFit, ToolsFit, ClockFits, File
  <2>2. QED
    BY <2>1 DEF McpInv
<1>8. ASSUME NEW t, CallsTool(t) PROVE McpInv'
  BY <1>7, <1>8 DEF CallsTool
<1>9. ASSUME mcpCall # NoMcpCall, NEW a, CallEnds(a) PROVE McpInv'
  BY <1>7, <1>9 DEF CallEnds, McpInv, PlaceFits
<1>10. CASE CallFails \/ \E blocks \in {"text", "image", "none"} : CallAnswered(blocks)
  BY <1>9, <1>10 DEF CallFails, CallAnswered
<1>11. CASE (\E s \in serversUp : ServerDies(s)) \/ UNCHANGED mcpVars
  <2>1. UNCHANGED loadVars /\ mcpCall' = mcpCall /\ mcpClock' = mcpClock
    BY <1>11 DEF ServerDies, mcpVars, loadVars
  <2>2. mcpClock \in Nat /\ (mcpCall = NoMcpCall \/ loadAt = "up")
    BY DEF McpInv, ClockFits, PlaceFits
  <2>3. QED
    BY <1>7, <2>1, <2>2
<1>12. QED
  BY <1>1, <1>2, <1>3, <1>4, <1>5, <1>6, <1>8, <1>10, <1>11 DEF McpNext

(* What the registry keeps of the tools: each name once, none lost.        *)
LEMMA RegisterFacts ==
    ASSUME NEW tools, IsSequence(tools)
    PROVE  /\ \A t, u \in RegisterAll(tools) : ToolName(t.server, t.remote) = ToolName(u.server, u.remote) => t = u
           /\ \A i \in DOMAIN tools :
                 \E t \in RegisterAll(tools) : ToolName(t.server, t.remote)
                                               = ToolName(tools[i].server, tools[i].remote)
<1> DEFINE name(i) == ToolName(tools[i].server, tools[i].remote)
           kept == {j \in DOMAIN tools : \A k \in j + 1 .. Len(tools) : name(k) # name(j)}
<1>1. Len(tools) \in Nat /\ DOMAIN tools = 1 .. Len(tools)
  BY SequenceLength
<1>2. RegisterAll(tools) = {tools[i] : i \in kept}
  BY DEF RegisterAll
<1>3. ASSUME NEW i \in kept, NEW j \in kept, name(i) = name(j) PROVE i = j
  <2>1. i \in 1 .. Len(tools) /\ j \in 1 .. Len(tools)
    BY <1>1
  <2>2. ~(i < j) /\ ~(j < i)
    BY <1>1, <1>3, <2>1
  <2>3. QED
    BY <2>1, <2>2
<1>4. ASSUME NEW i \in DOMAIN tools PROVE \E j \in kept : name(j) = name(i)
  <2> DEFINE same == {j \in DOMAIN tools : name(j) = name(i)}
  <2>1. same \subseteq 1 .. Len(tools) /\ same # {}
    BY <1>1
  <2>2. PICK x \in same : \A y \in same : y <= x
    <3> HIDE DEF same
    <3>1. QED
      BY <1>1, <2>1, LastOf
  <2>3. x \in kept
    BY <1>1, <2>2
  <2>4. QED
    BY <2>3
<1>5. ASSUME NEW t \in RegisterAll(tools), NEW u \in RegisterAll(tools),
             ToolName(t.server, t.remote) = ToolName(u.server, u.remote)
      PROVE  t = u
  <2>1. PICK i \in kept : t = tools[i]
    BY <1>2
  <2>2. PICK j \in kept : u = tools[j]
    BY <1>2
  <2>3. name(i) = name(j)
    BY <1>5, <2>1, <2>2
  <2>4. QED
    BY <1>3, <2>1, <2>2, <2>3
<1>6. ASSUME NEW i \in DOMAIN tools
      PROVE  \E t \in RegisterAll(tools) : ToolName(t.server, t.remote)
                                           = ToolName(tools[i].server, tools[i].remote)
  <2>1. PICK j \in kept : name(j) = name(i)
    BY <1>4
  <2>2. tools[j] \in RegisterAll(tools)
    BY <1>2
  <2>3. QED
    BY <2>1, <2>2
<1>7. QED
  BY <1>5, <1>6

LEMMA McpSafe == McpInv => McpSound
<1> SUFFICES ASSUME McpInv PROVE McpSound
  OBVIOUS
<1> USE McpAssumption
<1>1. EveryServerAccounted
  <2> SUFFICES ASSUME loadAt = "up" PROVE EveryServerAccounted
    BY DEF EveryServerAccounted
  <2>1. nextFile = Len(McpFiles) + 1 /\ registered = RegisterAll(mcpTools) /\ IsSequence(mcpTools)
    BY DEF McpInv, PlaceFits, ToolsFit
  <2>2. \A i \in DOMAIN McpFiles : McpFiles[i].state = "disabled" <=> McpFiles[i].stem \notin mcpWarnings \cup mcpServers
    BY <2>1 DEF McpInv, FilesFit
  <2>3. mcpWarnings \cap mcpServers = {}
    BY DEF McpInv, FilesFit
  <2>4. QED
    BY <2>1, <2>2, <2>3, RegisterFacts DEF EveryServerAccounted
<1>2. StartBounded
  BY DEF McpInv, PlaceFits, ClockFits, StartBounded
<1>3. QED
  BY <1>1, <1>2 DEF McpSound

(* No server goes missing in silence or holds the start up: every file is  *)
(* skipped on purpose, warned about or connected, a registered name leads  *)
(* to one tool, and each server is given up after two timeouts (mcp.rs).   *)
THEOREM ServersKept == McpSpec => []McpSound
<1>1. McpInv /\ [McpNext]_mcpVars => McpInv'
  BY McpStep
<1>2. QED
  BY McpInitially, McpSafe, <1>1, PTL DEF McpSpec

-----------------------------------------------------------------------------
(* Each step of the collected specification is a step or a stutter of each *)
(* of its parts.                                                           *)
LEMMA PartsStep ==
    [Next]_<<part, allVars>> => /\ [CallsNext]_callVars
                                /\ [JobsNext]_jobVars
                                /\ [DelegNext]_delegVars
                                /\ [HooksNext]_hookVars
                                /\ [CatNext]_catVars
                                /\ [McpNext]_mcpVars
<1> USE DEF allVars
<1>1. [Next]_<<part, allVars>> => [CallsNext]_callVars
  BY DEF Next, CallsPart, JobsPart, DelegationPart, HooksPart, CataloguePart, McpPart
<1>2. [Next]_<<part, allVars>> => [JobsNext]_jobVars
  BY DEF Next, CallsPart, JobsPart, DelegationPart, HooksPart, CataloguePart, McpPart
<1>3. [Next]_<<part, allVars>> => [DelegNext]_delegVars
  BY DEF Next, CallsPart, JobsPart, DelegationPart, HooksPart, CataloguePart, McpPart
<1>4. [Next]_<<part, allVars>> => [HooksNext]_hookVars
  BY DEF Next, CallsPart, JobsPart, DelegationPart, HooksPart, CataloguePart, McpPart
<1>5. [Next]_<<part, allVars>> => [CatNext]_catVars
  BY DEF Next, CallsPart, JobsPart, DelegationPart, HooksPart, CataloguePart, McpPart
<1>6. [Next]_<<part, allVars>> => [McpNext]_mcpVars
  BY DEF Next, CallsPart, JobsPart, DelegationPart, HooksPart, CataloguePart, McpPart
<1>7. QED
  BY <1>1, <1>2, <1>3, <1>4, <1>5, <1>6

LEMMA SpecOfParts == Spec => CallsSpec /\ JobsSpec /\ DelegSpec /\ HooksSpec /\ CatSpec /\ McpSpec
<1>1. Init => CallsInit /\ JobsInit /\ DelegInit /\ HooksInit /\ CatInit /\ McpInit
  BY DEF Init
<1>2. QED
  BY PartsStep, <1>1, PTL DEF Spec, CallsSpec, JobsSpec, DelegSpec, HooksSpec, CatSpec, McpSpec

(* No call that needs a yes runs without one, whatever the order of        *)
(* answer, timeout and stop, and every call row shown as started is closed *)
(* once (pipeline.rs, broker.rs).                                          *)
THEOREM CallsAreSound == Spec => []CallsSound
<1>1. NothingUnapproved /\ RowsClose => CallsSound
  BY DEF CallsSound
<1>2. QED
  BY SpecOfParts, CallsKept, <1>1, PTL

(* A finished job is told to the session that started it, once, and its    *)
(* output is shown, spilled or reported as dropped (jobs.rs).              *)
THEOREM JobsAreSound == Spec => []JobsSound
<1>1. EndsAreTold /\ OutputAccounted => JobsSound
  BY DEF JobsSound
<1>2. QED
  BY SpecOfParts, JobsKept, <1>1, PTL

(* Delegated runs are accounted for in the collected behaviours too        *)
(* (runner.rs, ralph.rs, team.rs, workflow.rs).                            *)
THEOREM DelegationIsSound == Spec => []DelegationSound
  BY SpecOfParts, DelegationKept, PTL

(* What files, hooks and servers add to the tools takes nothing from the   *)
(* built-in ones: a broken one of them abstains, is warned about or leaves *)
(* the others as they were (supervisor.rs, hooks.rs, mcp.rs).              *)
THEOREM ExtensionsAreSound == Spec => []ExtensionsSound
<1>1. CatalogueSound /\ HooksSound /\ McpSound => ExtensionsSound
  BY DEF ExtensionsSound
<1>2. QED
  BY SpecOfParts, CatalogueKept, HooksKept, ServersKept, <1>1, PTL
=============================================================================
