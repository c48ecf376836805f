-------------------------- MODULE OwnerFlowsProofs --------------------------
(***************************************************************************)
(* Proofs about two parts of the owner UI that share no state.             *)
(*                                                                         *)
(* WalletChain, for any number of flows at a time, connectors, builds and  *)
(* moves of the user: its types, and that a check which succeeds means the *)
(* target chain and one that fails had a cause.  The argument: nobody but  *)
(* the user takes the wallet off the target chain or gives it another RPC  *)
(* than that of the app (Moves); what flows ask for, in time or late, only *)
(* leads there.  So what a flow has seen stays true until the user moves   *)
(* the wallet, which drift and cause remember.  Placed says what the flow  *)
(* has seen at each stage, Caused what its own granted requests have done. *)
(*                                                                         *)
(* SessionDeletion, for any sessions and any number of overlapping         *)
(* deletions: its types, and that the timer ref and the pending deletion   *)
(* belong together.                                                        *)
(***************************************************************************)
EXTENDS WalletChain, SessionDeletion, TLAPS

FlowState == [at : Stage, kind : {"connect", "submit", "resync", "sign"},
              cap : Chain \cup {None}, left : 0..Candidates + 4,
              drift : BOOLEAN, cause : BOOLEAN]

\* The stages after the wallet was seen on the target chain.
Checked == {"block", "add2", "switch3", "block2", "code", "wcode", "add3", "switch4",
            "wcode2", "ensured"}

\* What a flow r has seen, in the build b with the wallet on chain c and RPC p.
Placed(r, b, c, p) ==
    /\ r.at = "connect" => r.kind = "connect"
    /\ r.at = "resolve" => r.kind = "submit" /\ ~b.strict
    /\ r.at = "first" => b.injected
    /\ r.at \in Checked /\ ~r.drift /\ (r.kind = "connect" => b.strict /\ b.injected)
         => c = Target
    /\ r.at = "wagmi" /\ ~b.injected /\ r.cap = Target /\ ~r.drift /\ r.kind # "connect"
         => c = Target
    /\ /\ r.at = "ensured" /\ ~r.drift /\ b.contract /\ b.injected
       /\ r.kind = "resync" \/ (r.kind = "submit" /\ b.strict)
       => p = "app"

\* What a flow r to which nothing has happened relies on.
Caused(r, b, c, p) ==
    ~r.cause /\ b.injected =>
        /\ r.at \notin {"failed", "resolve"}
        /\ r.at \in {"final", "wcode2"} => c = Target
        /\ r.at \in {"switch2", "switch3", "switch4", "block2", "wcode2"} => p = "app"

IInv ==
    /\ TypeOK
    /\ \A f \in Flow : Placed(flow[f], build, chain, rpc)
    /\ \A f \in Flow : Caused(flow[f], build, chain, rpc)

\* The wallet as flows and late prompts change it.
Moves ==
    /\ build' = build
    /\ chain' \in {chain, Target} /\ rpc' \in {rpc, "app"}
    /\ chain' = Target => rpc' # "none"

\* The state r that a step of flow f leaves.
Leaves(f, r) ==
    /\ r \in FlowState
    /\ flow' = [flow EXCEPT ![f] = r]
    /\ Placed(r, build, chain', rpc') /\ Caused(r, build, chain', rpc')

\* The constants of a step, as far as the types need them.
Rest ==
    /\ connected' \in BOOLEAN /\ seen' \in Chain \cup {None}
    /\ open' \in SUBSET {"switch", "add"} /\ moves' = moves

LEMMA FlowTyped == ASSUME TypeOK, NEW f \in Flow PROVE flow[f] \in FlowState
  BY DEF TypeOK, FlowState

LEMMA BuildTyped ==
  TypeOK => build.strict \in BOOLEAN /\ build.contract \in BOOLEAN /\ build.injected \in BOOLEAN
  BY WalletAssumption DEF TypeOK

\* A step of one flow keeps the invariant.
LEMMA StepKeeps ==
  ASSUME IInv, NEW f \in Flow, NEW r, Leaves(f, r), Moves, Rest
  PROVE  IInv'
<1>1. TypeOK'
  BY DEF IInv, TypeOK, Leaves, FlowState, Moves, Rest, Rpc, Chain
<1>2. ASSUME NEW g \in Flow
      PROVE  Placed(flow'[g], build', chain', rpc') /\ Caused(flow'[g], build', chain', rpc')
  <2>1. CASE g = f
    BY <2>1 DEF Leaves, Moves, IInv, TypeOK
  <2>2. CASE g # f
    <3>1. flow'[g] = flow[g]
      BY <2>2 DEF Leaves, IInv, TypeOK
    <3>2. Placed(flow[g], build, chain, rpc) /\ Caused(flow[g], build, chain, rpc)
      BY DEF IInv
    <3> QED
      BY <3>1, <3>2 DEF Placed, Caused, Moves
  <2> QED
    BY <2>1, <2>2
<1> QED
  BY <1>1, <1>2 DEF IInv

\* The wallet changes, and no flow goes on.
LEMMA OutsideKeeps ==
  ASSUME IInv, flow' = flow, Moves, Rest
  PROVE  IInv'
<1>1. TypeOK'
  BY DEF IInv, TypeOK, Moves, Rest, Rpc, Chain
<1>2. ASSUME NEW g \in Flow
      PROVE  Placed(flow'[g], build', chain', rpc') /\ Caused(flow'[g], build', chain', rpc')
  <2>1. Placed(flow[g], build, chain, rpc) /\ Caused(flow[g], build, chain, rpc)
    BY DEF IInv
  <2> QED
    BY <2>1 DEF Placed, Caused, Moves
<1> QED
  BY <1>1, <1>2 DEF IInv

LEMMA UserKeeps == IInv /\ UserMoves => IInv'
<1> SUFFICES ASSUME IInv, UserMoves PROVE IInv'
  OBVIOUS
<1>1. TypeOK'
  <2>1. flow' \in [Flow -> FlowState]
    <3>1. ASSUME NEW f \in Flow
          PROVE  [flow[f] EXCEPT !.drift = TRUE, !.cause = TRUE] \in FlowState
      <4>1. flow[f] \in FlowState
        BY FlowTyped DEF IInv
      <4> QED
        BY <4>1 DEF FlowState
    <3> QED
      BY <3>1 DEF UserMoves
  <2>2. moves' \in 0..MaxMoves
    <3>1. moves \in 0..MaxMoves /\ moves < MaxMoves /\ moves' = moves + 1
      BY DEF IInv, TypeOK, UserMoves
    <3>2. MaxMoves \in Nat
      BY WalletAssumption
    <3> QED
      BY ONLY <3>1, <3>2
  <2>3. /\ build' \in Builds
        /\ chain' \in Chain /\ rpc' \in Rpc /\ (chain' = Target => rpc' # "none")
        /\ connected' \in BOOLEAN /\ seen' \in Chain \cup {None}
        /\ open' \in SUBSET {"switch", "add"}
    BY DEF IInv, TypeOK, UserMoves
  <2> QED
    BY <2>1, <2>2, <2>3 DEF TypeOK, FlowState
<1>2. ASSUME NEW g \in Flow
      PROVE  Placed(flow'[g], build', chain', rpc') /\ Caused(flow'[g], build', chain', rpc')
  <2>1. Placed(flow[g], build, chain, rpc)
    BY DEF IInv
  <2>2. flow'[g] = [flow[g] EXCEPT !.drift = TRUE, !.cause = TRUE] /\ build' = build
    BY DEF UserMoves
  <2>3. flow[g] \in FlowState
    BY FlowTyped DEF IInv
  <2> QED
    BY <2>1, <2>2, <2>3 DEF Placed, Caused, FlowState
<1> QED
  BY <1>1, <1>2 DEF IInv

-----------------------------------------------------------------------------
(* How the steps of a flow change its record. *)

Quiet == build' = build /\ chain' = chain /\ rpc' = rpc

LEMMA QuietMoves == IInv /\ Quiet => Moves
  BY DEF IInv, TypeOK, Quiet, Moves, Rpc

LEMMA ForcedStage == ASSUME NEW f \in Flow PROVE Forced(f) \in {"code", "ensured"}
  BY DEF Forced

\* An exception needs a cause, unless the wallet is not in the page.
LEMMA ThrowsLeaves ==
  ASSUME IInv, NEW f \in Flow, NEW c \in BOOLEAN, Throws(f, c),
         build.injected => c \/ flow[f].cause
  PROVE  \E r : Leaves(f, r)
<1> DEFINE more == flow[f].kind = "connect" /\ flow[f].left > 1
           r == [flow[f] EXCEPT !.at = IF more THEN "connect" ELSE "failed",
                                !.left = IF more THEN @ - 1 ELSE @, !.cause = @ \/ c]
<1>1. flow[f] \in FlowState
  BY FlowTyped DEF IInv
<1>2. flow' = [flow EXCEPT ![f] = r]
  BY DEF Throws
<1>3. /\ (IF more THEN "connect" ELSE "failed") \in Stage
      /\ (IF more THEN flow[f].left - 1 ELSE flow[f].left) \in 0..Candidates + 4
      /\ (flow[f].cause \/ c) \in BOOLEAN
  <2>1. flow[f].left \in 0..Candidates + 4 /\ Candidates \in Nat
    BY <1>1, WalletAssumption DEF FlowState
  <2>2. (IF more THEN flow[f].left - 1 ELSE flow[f].left) \in 0..Candidates + 4
    BY <2>1
  <2> QED
    BY <2>2, <1>1 DEF Stage, Ended
<1>4. r \in FlowState
  BY <1>1, <1>3 DEF FlowState
<1>5. /\ r.kind = flow[f].kind
      /\ build.injected => r.cause
      /\ r.at \in {"connect", "failed"} /\ (r.at = "connect" => r.kind = "connect")
  BY <1>1 DEF FlowState
<1> HIDE DEF r
<1>6. Placed(r, build, chain', rpc') /\ Caused(r, build, chain', rpc')
  BY <1>5 DEF Placed, Caused, Checked
<1> QED
  BY <1>2, <1>4, <1>6 DEF Leaves

\* A step to the stage s that keeps the rest of the record.
LEMMA SetLeaves ==
  ASSUME IInv, NEW f \in Flow, NEW s \in Stage, Set(f, s),
         Placed([flow[f] EXCEPT !.at = s], build, chain', rpc'),
         Caused([flow[f] EXCEPT !.at = s], build, chain', rpc')
  PROVE  \E r : Leaves(f, r)
<1>1. flow[f] \in FlowState
  BY FlowTyped DEF IInv
<1>2. [flow[f] EXCEPT !.at = s] \in FlowState
  BY <1>1 DEF FlowState
<1> QED
  BY <1>2 DEF Leaves, Set

\* The same after something that is not the fault of the code.
LEMMA HitLeaves ==
  ASSUME IInv, NEW f \in Flow, NEW s \in Stage, Hit(f, s),
         Placed([flow[f] EXCEPT !.at = s, !.cause = TRUE], build, chain', rpc')
  PROVE  \E r : Leaves(f, r)
<1> DEFINE r == [flow[f] EXCEPT !.at = s, !.cause = TRUE]
<1>1. flow[f] \in FlowState
  BY FlowTyped DEF IInv
<1>2. r \in FlowState /\ r.cause
  BY <1>1 DEF FlowState
<1>3. flow' = [flow EXCEPT ![f] = r]
  BY DEF Hit
<1>4. Caused(r, build, chain', rpc')
  BY <1>2 DEF Caused
<1> QED
  BY <1>2, <1>3, <1>4 DEF Leaves

-----------------------------------------------------------------------------
(* The steps, one lemma for each action. *)

LEMMA PollKeeps == IInv /\ Poll => IInv'
<1> SUFFICES ASSUME IInv, Poll PROVE IInv'
  OBVIOUS
<1>1. Moves
  BY QuietMoves DEF Poll, Quiet
<1>2. Rest
  BY DEF Rest, Poll, IInv, TypeOK
<1> QED
  BY <1>1, <1>2, OutsideKeeps DEF Poll

LEMMA DisconnectKeeps == IInv /\ Disconnect => IInv'
<1> SUFFICES ASSUME IInv, Disconnect PROVE IInv'
  OBVIOUS
<1>1. Moves
  BY QuietMoves DEF Disconnect, Quiet
<1>2. Rest
  BY DEF Rest, Disconnect, IInv, TypeOK
<1> QED
  BY <1>1, <1>2, OutsideKeeps DEF Disconnect

\* What the wallet grants leads to the target chain.
LEMMA GrantMoves ==
  ASSUME IInv, NEW p \in {"switch", "add"}, Grant(p), build' = build
  PROVE  Moves
  BY DEF Grant, Moves, IInv, TypeOK, Rpc

LEMMA LatePromptKeeps ==
  ASSUME IInv, NEW p \in {"switch", "add"}, LatePrompt(p)
  PROVE  IInv'
<1>1. Moves
  <2>1. CASE Grant(p)
    BY <2>1, GrantMoves DEF LatePrompt
  <2>2. CASE UNCHANGED <<chain, rpc>>
    BY <2>2, QuietMoves DEF LatePrompt, Quiet
  <2> QED
    BY <2>1, <2>2 DEF LatePrompt
<1>2. Rest
  BY DEF Rest, LatePrompt, IInv, TypeOK
<1> QED
  BY <1>1, <1>2, OutsideKeeps DEF LatePrompt

\* A flow is started in a build and with the chain that the page knows.
LEMMA StartKeeps ==
  ASSUME IInv, NEW f \in Flow, NEW k \in {"connect", "submit", "resync", "sign"}, Start(f, k)
  PROVE  IInv'
<1> DEFINE default == k = "submit" /\ ~build.strict
           s == CASE k = "connect" -> "connect"
                  [] k = "sign" -> "sign"
                  [] default -> IF seen = None /\ build.injected THEN "resolve"
                                ELSE IF seen = Target THEN "ensured" ELSE "failed"
                  [] OTHER -> IF build.injected THEN "first" ELSE "wagmi"
           r == [at |-> s, kind |-> k, cap |-> seen,
                 left |-> IF k = "connect" THEN Candidates ELSE IF k = "sign" THEN 1 ELSE 0,
                 drift |-> seen # chain, cause |-> default /\ seen # Target]
<1>1. flow' = [flow EXCEPT ![f] = r]
  BY DEF Start
<1>2. s \in Stage
  BY DEF Stage, Reads, Switches, Ended
<1>3. r \in FlowState
  <2>1. Candidates \in Nat /\ seen \in Chain \cup {None}
    BY WalletAssumption DEF IInv, TypeOK
  <2> HIDE DEF s
  <2> QED
    BY <1>2, <2>1 DEF FlowState
<1>4. Placed(r, build, chain, rpc)
  BY DEF Placed, Checked
<1>5. Caused(r, build, chain, rpc)
  <2>1. None # Target
    BY WalletAssumption
  <2> QED
    BY <2>1 DEF Caused
<1>6. Quiet
  BY DEF Start, Quiet
<1>7. Leaves(f, r)
  BY <1>1, <1>3, <1>4, <1>5, <1>6 DEF Leaves, Quiet
<1>8. Rest
  BY DEF Rest, Start, IInv, TypeOK
<1> QED
  BY <1>6, <1>7, <1>8, QuietMoves, StepKeeps

LEMMA FinishKeeps ==
  ASSUME IInv, NEW f \in Flow, Finish(f)
  PROVE  IInv'
<1>1. Idle \in FlowState
  <2>1. 0 \in 0..Candidates + 4
    BY WalletAssumption
  <2> QED
    BY <2>1 DEF Idle, FlowState, Stage
<1>2. Quiet
  BY DEF Finish, Quiet
<1>3. Placed(Idle, build, chain, rpc) /\ Caused(Idle, build, chain, rpc)
  BY DEF Idle, Placed, Caused, Checked
<1>4. Leaves(f, Idle)
  BY <1>1, <1>2, <1>3 DEF Leaves, Finish, Quiet
<1>5. Rest
  BY DEF Rest, Finish, IInv, TypeOK
<1> QED
  BY <1>2, <1>4, <1>5, QuietMoves, StepKeeps

LEMMA ConnectAnswerKeeps ==
  ASSUME IInv, NEW f \in Flow, ConnectAnswer(f)
  PROVE  IInv'
<1>1. Quiet /\ Moves
  BY QuietMoves DEF ConnectAnswer, Quiet
<1>2. Rest
  BY DEF Rest, ConnectAnswer, IInv, TypeOK
<1>3. \E r : Leaves(f, r)
  <2>1. CASE Throws(f, TRUE)
    BY <2>1, ThrowsLeaves
  <2>2. ASSUME Set(f, IF ~build.strict THEN "ensured" ELSE IF build.injected THEN "first" ELSE "wagmi")
        PROVE  \E r : Leaves(f, r)
    <3> DEFINE s == IF ~build.strict THEN "ensured" ELSE IF build.injected THEN "first" ELSE "wagmi"
               r == [flow[f] EXCEPT !.at = s]
    <3>1. flow[f] \in FlowState /\ flow[f].kind = "connect"
      BY FlowTyped DEF IInv, ConnectAnswer, At, Placed
    <3>2. s \in Stage
      BY DEF Stage, Reads, Switches, Ended
    <3>3. r.at = s /\ r.kind = "connect"
      BY <3>1 DEF FlowState
    <3>4. Placed(r, build, chain', rpc') /\ Caused(r, build, chain', rpc')
      <4> HIDE DEF r
      <4> QED
        BY <3>3 DEF Placed, Caused, Checked
    <3> QED
      BY <2>2, <3>2, <3>4, SetLeaves
  <2> QED
    BY <2>1, <2>2 DEF ConnectAnswer
<1> QED
  BY <1>1, <1>2, <1>3, StepKeeps

\* A read of the chain is what Placed remembers.
LEMMA ReadAnswerKeeps ==
  ASSUME IInv, NEW f \in Flow, ReadAnswer(f)
  PROVE  IInv'
<1>1. Quiet /\ Moves
  BY QuietMoves DEF ReadAnswer, Quiet
<1>2. Rest
  BY DEF Rest, ReadAnswer, IInv, TypeOK
<1>3. /\ flow[f] \in FlowState
      /\ Placed(flow[f], build, chain, rpc) /\ Caused(flow[f], build, chain, rpc)
  BY FlowTyped DEF IInv
<1>4. None # Target
  BY WalletAssumption
<1>5. \E r : Leaves(f, r)
  <2>1. ASSUME NEW c, c = AfterRead(f, chain)
        PROVE  /\ c = "failed" => flow[f].cause \/ ~build.injected
               /\ c # "failed" => Leaves(f, [flow[f] EXCEPT !.at = c, !.drift = FALSE])
                                  \/ flow' # [flow EXCEPT ![f].at = c, ![f].drift = FALSE]
    <3>1. c = "failed" => flow[f].cause \/ ~build.injected
      BY <1>3, <2>1, ForcedStage DEF AfterRead, ReadAnswer, Reads, At, Caused
    <3>2. ASSUME c # "failed", flow' = [flow EXCEPT ![f].at = c, ![f].drift = FALSE]
          PROVE  Leaves(f, [flow[f] EXCEPT !.at = c, !.drift = FALSE])
      <4> DEFINE r == [flow[f] EXCEPT !.at = c, !.drift = FALSE]
      <4>1. c \in {"ensured", "code", "wagmi", "final", "switch", "block"}
        BY <2>1, <3>2, ForcedStage DEF AfterRead, ReadAnswer, Reads, At
      <4>2. r \in FlowState
        BY <1>3, <4>1 DEF FlowState, Stage, Ended, Reads, Switches, Blocks
      <4>3. /\ r.at = c /\ r.kind = flow[f].kind /\ r.cap = flow[f].cap
            /\ r.drift = FALSE /\ r.cause = flow[f].cause
        BY <1>3 DEF FlowState
      <4>4. /\ c \in {"ensured", "code", "final", "block"} => chain = Target
            /\ c = "wagmi" => build.injected
            /\ c = "ensured" =>
                 \/ flow[f].kind = "submit" /\ ~build.strict
                 \/ flow[f].kind = "connect" \/ ~build.contract
        BY <1>3, <2>1, <4>1 DEF AfterRead, ReadAnswer, Reads, At, Forced, Placed
      <4>5. Placed(r, build, chain', rpc') /\ Caused(r, build, chain', rpc')
        <5> HIDE DEF r
        <5> QED
          BY <1>1, <4>1, <4>3, <4>4 DEF Placed, Caused, Checked, Quiet
      <4> QED
        BY <3>2, <4>2, <4>5 DEF Leaves
    <3> QED
      BY <3>1, <3>2
  <2>2. CASE AfterRead(f, chain) = "failed" /\ Throws(f, FALSE)
    BY <2>1, <2>2, ThrowsLeaves
  <2>3. CASE AfterRead(f, chain) # "failed"
             /\ flow' = [flow EXCEPT ![f].at = AfterRead(f, chain), ![f].drift = FALSE]
    BY <2>1, <2>3
  <2>4. CASE AfterRead(f, None) = "failed" /\ Throws(f, TRUE)
    BY <2>4, ThrowsLeaves
  <2>5. CASE AfterRead(f, None) # "failed" /\ Hit(f, AfterRead(f, None))
    <3> DEFINE s == AfterRead(f, None)
               r == [flow[f] EXCEPT !.at = s, !.cause = TRUE]
    <3>1. s = "switch" \/ (s = "wagmi" /\ build.injected)
      BY <1>3, <1>4, <2>5 DEF AfterRead, ReadAnswer, Reads, At, Placed
    <3>2. r.at = s
      BY <1>3 DEF FlowState
    <3>3. Placed(r, build, chain', rpc')
      <4> HIDE DEF r, s
      <4> QED
        BY <3>1, <3>2 DEF Placed, Checked
    <3>4. s \in Stage
      BY <3>1 DEF Stage, Switches
    <3> QED
      BY <2>5, <3>3, <3>4, HitLeaves
  <2> QED
    BY <2>2, <2>3, <2>4, <2>5 DEF ReadAnswer
<1> QED
  BY <1>1, <1>2, <1>5, StepKeeps

\* Without a provider in the page, what is left is the chain of the render.
LEMMA AfterWagmiLeaves ==
  ASSUME IInv, NEW f \in Flow, NEW c \in BOOLEAN, At(f) = "wagmi", AfterWagmi(f, c), Moves
  PROVE  \E r : Leaves(f, r)
<1>1. flow[f] \in FlowState /\ Placed(flow[f], build, chain, rpc) /\ flow[f].at = "wagmi"
  BY FlowTyped DEF IInv, At
<1>2. ASSUME NEW s \in {"after", "code", "ensured"}, s = "after" \/ ~build.injected,
             s \in {"code", "ensured"} => flow[f].cap = Target,
             flow' = [flow EXCEPT ![f].at = s, ![f].cause = @ \/ c]
      PROVE  \E r : Leaves(f, r)
  <2> DEFINE r == [flow[f] EXCEPT !.at = s, !.cause = @ \/ c]
  <2>1. /\ r.at = s /\ r.kind = flow[f].kind /\ r.drift = flow[f].drift
    BY <1>1 DEF FlowState
  <2>2. r \in FlowState
    BY <1>1 DEF FlowState, Stage, Reads, Ended
  <2>3. flow[f].kind # "connect" /\ ~flow[f].drift /\ s # "after" => chain' = Target
    BY <1>1, <1>2 DEF Placed, Moves
  <2>4. Placed(r, build, chain', rpc') /\ Caused(r, build, chain', rpc')
    <3> HIDE DEF r
    <3> QED
      BY <1>2, <2>1, <2>3 DEF Placed, Caused, Checked
  <2> QED
    BY <1>2, <2>2, <2>4 DEF Leaves
<1>3. CASE build.injected
  BY <1>2, <1>3 DEF AfterWagmi
<1>4. CASE ~build.injected /\ flow[f].cap = Target
  BY <1>2, <1>4, ForcedStage DEF AfterWagmi
<1>5. CASE ~build.injected /\ flow[f].cap # Target
  BY <1>5, ThrowsLeaves DEF AfterWagmi
<1> QED
  BY <1>3, <1>4, <1>5

\* What follows a request leads on: where the wallet was seen on the target
\* chain it still is, unless something went wrong with the flow.
LEMMA GrantedStage ==
  ASSUME NEW s \in DOMAIN Granted
  PROVE  /\ Granted[s] \in {"final", "switch2", "switch3", "switch4", "block2", "wcode2"}
         /\ Granted[s] \in {"switch3", "switch4", "block2", "wcode2"} => s \in Checked
         /\ Granted[s] = "final" => s \in {"switch", "switch2"}
         /\ Granted[s] \in {"switch2", "switch3", "switch4"} => s \in Adds
         /\ Granted[s] \in {"block2", "wcode2"} => s \in {"switch3", "switch4"}
         /\ s \in {"switch", "switch2", "switch3", "switch4", "add", "add2", "add3"}
  BY DEF Granted, Checked, Adds

LEMMA ApproveKeeps ==
  ASSUME IInv, NEW f \in Flow, Approve(f)
  PROVE  IInv'
<1>1. Rest
  BY DEF Rest, Approve, IInv, TypeOK
<1>2. build' = build
  BY DEF Approve
<1>3. CASE At(f) = "wagmi" /\ AfterWagmi(f, FALSE)
           /\ IF rpc = "none" THEN rpc' = "app" /\ chain' = Target ELSE Grant("switch")
  <2>1. Moves
    BY <1>2, <1>3, GrantMoves DEF Moves
  <2> QED
    BY <1>1, <1>3, <2>1, AfterWagmiLeaves, StepKeeps
<1>4. CASE At(f) \in DOMAIN Granted /\ Set(f, Granted[At(f)])
           /\ Grant(IF At(f) \in Adds THEN "add" ELSE "switch")
  <2> DEFINE s == Granted[At(f)]
             r == [flow[f] EXCEPT !.at = s]
  <2>1. Moves
    BY <1>2, <1>4, GrantMoves
  <2>2. /\ flow[f] \in FlowState
        /\ Placed(flow[f], build, chain, rpc) /\ Caused(flow[f], build, chain, rpc)
    BY FlowTyped DEF IInv
  <2>3. /\ r.at = s /\ r.kind = flow[f].kind
        /\ r.drift = flow[f].drift /\ r.cause = flow[f].cause
    BY <2>2 DEF FlowState
  <2>4. /\ At(f) \notin Adds => chain' = Target /\ rpc' = rpc
        /\ At(f) \in Adds => rpc' = "app"
    BY <1>4 DEF Grant
  <2>5. s \in Stage
    BY <1>4, GrantedStage DEF Stage, Reads, Switches, Blocks, WalletCodes
  <2>6. Placed(r, build, chain', rpc')
    <3> HIDE DEF r
    <3>1. s \in Checked => At(f) \in Checked \/ chain' = Target
      BY <1>4, <2>4, GrantedStage DEF Checked, Adds
    <3>2. s \notin {"connect", "resolve", "first", "wagmi", "ensured"}
      BY <1>4, GrantedStage
    <3> QED
      BY <2>1, <2>2, <2>3, <3>1, <3>2 DEF Placed, Moves, At
  <2>7. Caused(r, build, chain', rpc')
    <3> HIDE DEF r, s
    <3>1. s \notin {"failed", "resolve"}
      BY <1>4, GrantedStage DEF s
    <3>2. s \in {"final", "wcode2"} => chain' = Target
      BY <1>4, <2>4, GrantedStage DEF s, Adds
    <3>3. s \in {"switch2", "switch3", "switch4"} => rpc' = "app"
      BY <1>4, <2>4, GrantedStage DEF s
    <3>4. s \in {"block2", "wcode2"} => At(f) \in {"switch3", "switch4"} /\ rpc' = rpc
      BY <1>4, <2>4, GrantedStage DEF s, Adds
    <3> QED
      BY <2>2, <2>3, <3>1, <3>2, <3>3, <3>4 DEF Caused, At
  <2> QED
    BY <1>1, <1>4, <2>1, <2>5, <2>6, <2>7, SetLeaves, StepKeeps
<1> QED
  BY <1>3, <1>4 DEF Approve

LEMMA ApproveInVainKeeps ==
  ASSUME IInv, NEW f \in Flow, ApproveInVain(f)
  PROVE  IInv'
<1>1. Quiet /\ Moves
  BY QuietMoves DEF ApproveInVain, Quiet
<1>2. Rest
  BY DEF Rest, ApproveInVain, IInv, TypeOK
<1>3. CASE At(f) = "wagmi" /\ AfterWagmi(f, TRUE)
  BY <1>1, <1>2, <1>3, AfterWagmiLeaves, StepKeeps
<1>4. CASE At(f) \in DOMAIN Granted /\ Hit(f, Granted[At(f)])
  <2> DEFINE s == Granted[At(f)]
             r == [flow[f] EXCEPT !.at = s, !.cause = TRUE]
  <2>1. flow[f] \in FlowState /\ Placed(flow[f], build, chain, rpc)
    BY FlowTyped DEF IInv
  <2>2. r.at = s /\ r.kind = flow[f].kind /\ r.drift = flow[f].drift
    BY <2>1 DEF FlowState
  <2>3. s \in Stage
    BY <1>4, GrantedStage DEF Stage, Reads, Switches, Blocks, WalletCodes
  <2>4. Placed(r, build, chain', rpc')
    <3> HIDE DEF r
    <3>1. s \in Checked => At(f) \in Checked
      BY <1>4, GrantedStage DEF Checked
    <3>2. s \notin {"connect", "resolve", "first", "wagmi", "ensured"}
      BY <1>4, GrantedStage
    <3> QED
      BY <1>1, <2>1, <2>2, <3>1, <3>2 DEF Placed, Quiet, At
  <2> QED
    BY <1>1, <1>2, <1>4, <2>3, <2>4, HitLeaves, StepKeeps
<1> QED
  BY <1>3, <1>4 DEF ApproveInVain

\* Where an earlier request has given the wallet the RPC of the app, the chain
\* is not unknown.
LEMMA UnknownChainKeeps ==
  ASSUME IInv, NEW f \in Flow, UnknownChain(f)
  PROVE  IInv'
<1>1. Quiet /\ Moves
  BY QuietMoves DEF UnknownChain, Quiet
<1>2. Rest
  BY DEF Rest, UnknownChain, IInv, TypeOK
<1>3. CASE At(f) = "wagmi"
  BY <1>1, <1>2, <1>3, AfterWagmiLeaves, StepKeeps DEF UnknownChain
<1>4. CASE At(f) = "switch"
  <2> DEFINE r == [flow[f] EXCEPT !.at = "add"]
  <2>1. flow[f] \in FlowState
    BY FlowTyped DEF IInv
  <2>2. r.at = "add"
    BY <2>1 DEF FlowState
  <2>3. Placed(r, build, chain', rpc') /\ Caused(r, build, chain', rpc')
    <3> HIDE DEF r
    <3> QED
      BY <2>2 DEF Placed, Caused, Checked
  <2>4. "add" \in Stage /\ Set(f, "add")
    BY <1>4 DEF Stage, Adds, UnknownChain
  <2> QED
    BY <1>1, <1>2, <2>3, <2>4, SetLeaves, StepKeeps
<1>5. CASE At(f) \in {"switch2", "switch3", "switch4"}
  <2>1. build.injected => flow[f].cause
    BY <1>5 DEF UnknownChain, IInv, Caused, At
  <2>2. Throws(f, FALSE)
    BY <1>5 DEF UnknownChain
  <2> QED
    BY <1>1, <1>2, <2>1, <2>2, ThrowsLeaves, StepKeeps
<1> QED
  BY <1>3, <1>4, <1>5 DEF UnknownChain, Switches

LEMMA RefuseKeeps ==
  ASSUME IInv, NEW f \in Flow, Refuse(f)
  PROVE  IInv'
<1>1. Quiet /\ Moves
  BY QuietMoves DEF Refuse, Quiet
<1>2. Rest
  BY DEF Rest, Refuse, IInv, TypeOK
<1>3. CASE At(f) = "wagmi" /\ AfterWagmi(f, TRUE)
  BY <1>1, <1>2, <1>3, AfterWagmiLeaves, StepKeeps
<1>4. CASE Throws(f, TRUE)
  BY <1>1, <1>2, <1>4, ThrowsLeaves, StepKeeps
<1> QED
  BY <1>3, <1>4 DEF Refuse

\* A flow is past the comparison of the chain: what it knew then is still so.
LEMMA CheckedLeaves ==
  ASSUME IInv, NEW f \in Flow, Quiet, At(f) \in Checked, Set(f, Forced(f))
  PROVE  \E r : Leaves(f, r)
<1> DEFINE s == Forced(f)
           r == [flow[f] EXCEPT !.at = s]
<1>1. flow[f] \in FlowState /\ Placed(flow[f], build, chain, rpc)
  BY FlowTyped DEF IInv
<1>2. r.at = s /\ r.kind = flow[f].kind /\ r.drift = flow[f].drift
  BY <1>1 DEF FlowState
<1>3. s \in {"code", "ensured"}
  BY ForcedStage
<1>4. s = "ensured" => flow[f].kind = "connect" \/ ~build.contract
  BY DEF Forced
<1>5. Placed(r, build, chain', rpc') /\ Caused(r, build, chain', rpc')
  <2> HIDE DEF r, s
  <2> QED
    BY <1>1, <1>2, <1>3, <1>4 DEF Placed, Caused, Checked, Quiet, At
<1>6. s \in Stage
  BY <1>3 DEF Stage, Ended
<1> QED
  BY <1>5, <1>6, SetLeaves

LEMMA BlockAnswerKeeps ==
  ASSUME IInv, NEW f \in Flow, BlockAnswer(f)
  PROVE  IInv'
<1>1. Quiet /\ Moves
  BY QuietMoves DEF BlockAnswer, Quiet
<1>2. Rest
  BY DEF Rest, BlockAnswer, IInv, TypeOK
<1>3. CASE chain # Target \/ rpc # "down"
  <2>1. At(f) \in Checked
    BY DEF BlockAnswer, Blocks, Checked
  <2>2. Set(f, Forced(f))
    BY <1>3 DEF BlockAnswer
  <2> QED
    BY <1>1, <1>2, <2>1, <2>2, CheckedLeaves, StepKeeps
<1>4. CASE ~(chain # Target \/ rpc # "down") /\ At(f) = "block"
  <2> DEFINE r == [flow[f] EXCEPT !.at = "add2"]
  <2>1. flow[f] \in FlowState
    BY FlowTyped DEF IInv
  <2>2. r.at = "add2"
    BY <2>1 DEF FlowState
  <2>3. Placed(r, build, chain', rpc') /\ Caused(r, build, chain', rpc')
    <3> HIDE DEF r
    <3> QED
      BY <1>1, <1>4, <2>2 DEF Placed, Caused, Quiet
  <2>4. "add2" \in Stage /\ Set(f, "add2")
    BY <1>4 DEF Stage, Adds, BlockAnswer
  <2> QED
    BY <1>1, <1>2, <2>3, <2>4, SetLeaves, StepKeeps
<1>5. CASE ~(chain # Target \/ rpc # "down") /\ At(f) = "block2"
  <2>1. build.injected => flow[f].cause
    BY <1>5 DEF IInv, Caused, At
  <2>2. Throws(f, FALSE)
    BY <1>5 DEF BlockAnswer
  <2> QED
    BY <1>1, <1>2, <2>1, <2>2, ThrowsLeaves, StepKeeps
<1> QED
  BY <1>3, <1>4, <1>5 DEF BlockAnswer, Blocks

LEMMA CodeAnswerKeeps ==
  ASSUME IInv, NEW f \in Flow, CodeAnswer(f)
  PROVE  IInv'
<1>1. Quiet /\ Moves
  BY QuietMoves DEF CodeAnswer, Quiet
<1>2. Rest
  BY DEF Rest, CodeAnswer, IInv, TypeOK
<1>3. CASE Throws(f, TRUE)
  BY <1>1, <1>2, <1>3, ThrowsLeaves, StepKeeps
<1>4. CASE Set(f, IF build.injected THEN "wcode" ELSE "ensured")
  <2> DEFINE s == IF build.injected THEN "wcode" ELSE "ensured"
             r == [flow[f] EXCEPT !.at = s]
  <2>1. flow[f] \in FlowState /\ Placed(flow[f], build, chain, rpc) /\ flow[f].at = "code"
    BY FlowTyped DEF IInv, CodeAnswer, At
  <2>2. r.at = s /\ r.kind = flow[f].kind /\ r.drift = flow[f].drift
    BY <2>1 DEF FlowState
  <2>3. Placed(r, build, chain', rpc') /\ Caused(r, build, chain', rpc')
    <3> HIDE DEF r
    <3> QED
      BY <1>1, <2>1, <2>2 DEF Placed, Caused, Checked, Quiet
  <2>4. s \in Stage
    BY DEF Stage, WalletCodes, Ended
  <2> QED
    BY <1>1, <1>2, <1>4, <2>3, <2>4, SetLeaves, StepKeeps
<1> QED
  BY <1>3, <1>4 DEF CodeAnswer

\* The wallet sees the code of the app only over the RPC of the app.
LEMMA WalletCodeKeeps ==
  ASSUME IInv, NEW f \in Flow, WalletCode(f)
  PROVE  IInv'
<1>1. Quiet /\ Moves
  BY QuietMoves DEF WalletCode, Quiet
<1>2. Rest
  BY DEF Rest, WalletCode, IInv, TypeOK
<1>3. /\ flow[f] \in FlowState
      /\ Placed(flow[f], build, chain, rpc) /\ Caused(flow[f], build, chain, rpc)
  BY FlowTyped DEF IInv
<1>4. CASE /\ chain = Target /\ rpc = "app"
           /\ flow' = [flow EXCEPT ![f].at = "ensured", ![f].drift = FALSE]
  <2> DEFINE r == [flow[f] EXCEPT !.at = "ensured", !.drift = FALSE]
  <2>1. r.at = "ensured" /\ r \in FlowState
    BY <1>3 DEF FlowState, Stage, Ended
  <2>2. Placed(r, build, chain', rpc') /\ Caused(r, build, chain', rpc')
    <3> HIDE DEF r
    <3> QED
      BY <1>1, <1>4, <2>1 DEF Placed, Caused, Quiet
  <2>3. Leaves(f, r)
    BY <1>4, <2>1, <2>2 DEF Leaves
  <2> QED
    BY <1>1, <1>2, <2>3, StepKeeps
<1>5. CASE At(f) = "wcode" /\ Set(f, "add3")
  <2> DEFINE r == [flow[f] EXCEPT !.at = "add3"]
  <2>1. r.at = "add3" /\ r.kind = flow[f].kind /\ r.drift = flow[f].drift
    BY <1>3 DEF FlowState
  <2>2. Placed(r, build, chain', rpc') /\ Caused(r, build, chain', rpc')
    <3> HIDE DEF r
    <3> QED
      BY <1>1, <1>3, <1>5, <2>1 DEF Placed, Caused, Checked, Quiet, At
  <2>3. "add3" \in Stage
    BY DEF Stage, Adds
  <2> QED
    BY <1>1, <1>2, <1>5, <2>2, <2>3, SetLeaves, StepKeeps
<1>6. CASE At(f) = "wcode" /\ Hit(f, "add3")
  <2> DEFINE r == [flow[f] EXCEPT !.at = "add3", !.cause = TRUE]
  <2>1. r.at = "add3" /\ r.kind = flow[f].kind /\ r.drift = flow[f].drift
    BY <1>3 DEF FlowState
  <2>2. Placed(r, build, chain', rpc')
    <3> HIDE DEF r
    <3> QED
      BY <1>1, <1>3, <1>6, <2>1 DEF Placed, Checked, Quiet, At
  <2>3. "add3" \in Stage
    BY DEF Stage, Adds
  <2> QED
    BY <1>1, <1>2, <1>6, <2>2, <2>3, HitLeaves, StepKeeps
<1>7. CASE At(f) = "wcode2" /\ ~(chain = Target /\ rpc = "app") /\ Throws(f, FALSE)
  <2>1. build.injected => flow[f].cause
    BY <1>3, <1>7 DEF Caused, At
  <2> QED
    BY <1>1, <1>2, <1>7, <2>1, ThrowsLeaves, StepKeeps
<1>8. CASE Throws(f, TRUE)
  BY <1>1, <1>2, <1>8, ThrowsLeaves, StepKeeps
<1> QED
  BY <1>4, <1>5, <1>6, <1>7, <1>8 DEF WalletCode, WalletCodes

\* No part of the invariant is about signatures but their types.
LEMMA SignLeaves ==
  ASSUME IInv, NEW f \in Flow, At(f) = "sign", NEW s \in {"sign", "signed", "failed"},
         NEW n \in 0..Candidates + 4, NEW c \in BOOLEAN, s = "signed" \/ c,
         flow' = [flow EXCEPT ![f] = [flow[f] EXCEPT !.at = s, !.left = n, !.cause = c]]
  PROVE  \E r : Leaves(f, r)
<1> DEFINE r == [flow[f] EXCEPT !.at = s, !.left = n, !.cause = c]
<1>1. flow[f] \in FlowState
  BY FlowTyped DEF IInv
<1>2. r \in FlowState /\ r.at = s /\ r.cause = c
  BY <1>1 DEF FlowState, Stage, Ended
<1>3. Placed(r, build, chain', rpc') /\ Caused(r, build, chain', rpc')
  <2> HIDE DEF r
  <2> QED
    BY <1>2 DEF Placed, Caused, Checked
<1> QED
  BY <1>2, <1>3 DEF Leaves

LEMMA SignKeeps ==
  ASSUME IInv, NEW f \in Flow, WagmiSign(f) \/ ProviderSign(f)
  PROVE  IInv'
<1>1. Quiet /\ Moves
  BY QuietMoves DEF WagmiSign, ProviderSign, Quiet
<1>2. Rest
  BY DEF Rest, WagmiSign, ProviderSign, IInv, TypeOK
<1>3. At(f) = "sign"
  BY DEF WagmiSign, ProviderSign
<1>4. /\ flow[f] \in FlowState /\ flow[f].left \in 0..Candidates + 4
      /\ flow[f].cause \in BOOLEAN
  BY FlowTyped DEF IInv, FlowState
<1>5. Candidates \in Nat
  BY WalletAssumption
<1>6. CASE Set(f, "signed")
  <2>1. flow' = [flow EXCEPT ![f] = [flow[f] EXCEPT !.at = "signed", !.left = flow[f].left,
                                                     !.cause = flow[f].cause]]
    BY <1>4, <1>6 DEF Set, FlowState
  <2> QED
    BY <1>1, <1>2, <1>3, <1>4, <2>1, SignLeaves, StepKeeps
<1>7. CASE Hit(f, "failed")
  <2>1. flow' = [flow EXCEPT ![f] = [flow[f] EXCEPT !.at = "failed", !.left = flow[f].left,
                                                     !.cause = TRUE]]
    BY <1>4, <1>7 DEF Hit, FlowState
  <2> QED
    BY <1>1, <1>2, <1>3, <1>4, <2>1, SignLeaves, StepKeeps
<1>8. ASSUME NEW n \in 0..Candidates + 4,
             flow' = [flow EXCEPT ![f].left = n, ![f].cause = TRUE]
      PROVE  IInv'
  <2>1. flow' = [flow EXCEPT ![f] = [flow[f] EXCEPT !.at = "sign", !.left = n, !.cause = TRUE]]
    BY <1>3, <1>4, <1>8 DEF At, FlowState
  <2> QED
    BY <1>1, <1>2, <1>3, <2>1, SignLeaves, StepKeeps
<1>9. CASE WagmiSign(f)
  <2>1. 2 \in 0..Candidates + 4
    BY <1>5
  <2> QED
    BY <1>6, <1>7, <1>8, <1>9, <2>1 DEF WagmiSign
<1>10. CASE ProviderSign(f)
  <2>1. flow[f].left < 4 => flow[f].left + 1 \in 0..Candidates + 4
    BY <1>4, <1>5
  <2> QED
    BY <1>6, <1>7, <1>8, <1>10, <2>1 DEF ProviderSign
<1> QED
  BY <1>9, <1>10

LEMMA TimeOutKeeps ==
  ASSUME IInv, NEW f \in Flow, TimeOut(f)
  PROVE  IInv'
<1>1. Quiet /\ Moves
  BY QuietMoves DEF TimeOut, Quiet
<1>2. Rest
  BY DEF Rest, TimeOut, IInv, TypeOK
<1>3. CASE At(f) = "wagmi"
  BY <1>1, <1>2, <1>3, AfterWagmiLeaves, StepKeeps DEF TimeOut
<1>4. CASE At(f) = "block"
  <2> DEFINE r == [flow[f] EXCEPT !.at = "add2", !.cause = TRUE]
  <2>1. flow[f] \in FlowState /\ Placed(flow[f], build, chain, rpc)
    BY FlowTyped DEF IInv
  <2>2. r.at = "add2" /\ r.kind = flow[f].kind /\ r.drift = flow[f].drift
    BY <2>1 DEF FlowState
  <2>3. Placed(r, build, chain', rpc')
    <3> HIDE DEF r
    <3> QED
      BY <1>1, <1>4, <2>1, <2>2 DEF Placed, Checked, Quiet, At
  <2>4. "add2" \in Stage /\ Hit(f, "add2")
    BY <1>4 DEF Stage, Adds, TimeOut
  <2> QED
    BY <1>1, <1>2, <2>3, <2>4, HitLeaves, StepKeeps
<1>5. CASE At(f) \notin {"wagmi", "block"}
  <2>1. Throws(f, TRUE)
    BY <1>5 DEF TimeOut
  <2> QED
    BY <1>1, <1>2, <2>1, ThrowsLeaves, StepKeeps
<1> QED
  BY <1>3, <1>4, <1>5

-----------------------------------------------------------------------------

LEMMA InitIInv == Init => IInv
<1> SUFFICES ASSUME Init PROVE IInv
  OBVIOUS
<1>1. Idle \in FlowState
  <2>1. 0 \in 0..Candidates + 4
    BY WalletAssumption
  <2> QED
    BY <2>1 DEF Idle, FlowState, Stage
<1>2. moves \in 0..MaxMoves
  BY WalletAssumption DEF Init
<1>3. TypeOK
  BY <1>1, <1>2 DEF Init, TypeOK, FlowState
<1>4. \A b, c, p : Placed(Idle, b, c, p) /\ Caused(Idle, b, c, p)
  BY DEF Idle, Placed, Caused, Checked
<1> QED
  BY <1>3, <1>4 DEF Init, IInv

LEMMA NextIInv == IInv /\ [Next]_vars => IInv'
<1> SUFFICES ASSUME IInv, [Next]_vars PROVE IInv'
  OBVIOUS
<1>1. CASE UNCHANGED vars
  BY <1>1 DEF vars, IInv, TypeOK
<1>2. ASSUME NEW f \in Flow, Step(f) PROVE IInv'
  BY <1>2, StartKeeps, FinishKeeps, ConnectAnswerKeeps, ReadAnswerKeeps, ApproveKeeps,
     ApproveInVainKeeps, UnknownChainKeeps, RefuseKeeps, BlockAnswerKeeps, CodeAnswerKeeps,
     WalletCodeKeeps, SignKeeps, TimeOutKeeps DEF Step
<1> QED
  BY <1>1, <1>2, UserKeeps, PollKeeps, DisconnectKeeps, LatePromptKeeps DEF Next

LEMMA IInvAlways == Spec => []IInv
  BY InitIInv, NextIInv, PTL DEF Spec

\* The wallet, what the page knows of it, and the flows have their types
\* (WalletChain.TypeOK): in particular signing ends after four requests.
THEOREM WalletTypeOK == Spec => []TypeOK
  BY IInvAlways, PTL DEF IInv

\* Whatever is refused, timed out or approved late, a flow that says the
\* wallet is ready left it on the target chain, and with a contract to compare
\* on the RPC of the app (ensureTargetChain, connectWallet).
THEOREM EnsuredIsOnTarget == Spec => []EnsuredOnTarget
<1>1. IInv => EnsuredOnTarget
  BY DEF IInv, Placed, Checked, EnsuredOnTarget, Compares
<1> QED
  BY <1>1, IInvAlways, PTL

\* A flow fails only if the user, the wallet or the target RPC gave it a
\* reason (forceWalletToTargetChain).
THEOREM FailuresHaveACause == Spec => []NoFailureWithoutCause
<1>1. IInv => NoFailureWithoutCause
  BY DEF IInv, Caused, NoFailureWithoutCause
<1> QED
  BY <1>1, IInvAlways, PTL

-----------------------------------------------------------------------------
(* The delayed deletion of sessions. *)

DeletionIInv == DeletionTypeOK /\ UndoReachesTheTimer

Deletions == [Slot -> [at : DeletionStage, of : Session \cup {Nothing}]]

LEMMA ClearedType ==
  ASSUME DeletionTypeOK, NEW d \in Slot \cup {Nothing}
  PROVE  Cleared(d) \in Deletions
  BY DeletionAssumption DEF DeletionAssumption, DeletionTypeOK, Cleared, Free, Deletions, DeletionStage

LEMMA DeletionStarts == DeletionInit => DeletionIInv
  BY DeletionAssumption DEF DeletionAssumption, DeletionInit, DeletionIInv, DeletionTypeOK,
    UndoReachesTheTimer, Free, DeletionStage

LEMMA QueueStep ==
  ASSUME DeletionIInv, NEW s \in Session, NEW d \in Slot, QueueSessionDelete(s, d)
  PROVE  DeletionIInv'
<1>1. Cleared(timer) \in Deletions
  BY ClearedType DEF DeletionIInv, DeletionTypeOK
<1>2. slot' = [Cleared(timer) EXCEPT ![d] = [at |-> "armed", of |-> s]]
  BY DEF QueueSessionDelete
<1>3. slot' \in Deletions /\ slot'[d].of = s
  BY <1>1, <1>2 DEF Deletions, DeletionStage
<1>4. DeletionTypeOK'
  BY <1>3 DEF QueueSessionDelete, DeletionIInv, DeletionTypeOK, Deletions
<1>5. UndoReachesTheTimer'
  BY <1>3, DeletionAssumption DEF DeletionAssumption, QueueSessionDelete, UndoReachesTheTimer
<1> QED BY <1>4, <1>5 DEF DeletionIInv

\* Whoever resets the ref resets the pending deletion with it.
LEMMA ResetStep ==
  ASSUME DeletionIInv, Undo \/ SwitchInstance
  PROVE  DeletionIInv'
<1>1. Cleared(timer) \in Deletions
  BY ClearedType DEF DeletionIInv, DeletionTypeOK
<1>2. DeletionTypeOK'
  BY <1>1 DEF Undo, SwitchInstance, DeletionIInv, DeletionTypeOK, Deletions
<1>3. UndoReachesTheTimer'
  BY DEF Undo, SwitchInstance, UndoReachesTheTimer
<1> QED BY <1>2, <1>3 DEF DeletionIInv

LEMMA SettleStep ==
  ASSUME DeletionIInv, NEW d \in Slot, Settle(d)
  PROVE  DeletionIInv'
<1>1. /\ slot \in Deletions /\ slot' = [slot EXCEPT ![d] = Free]
      /\ slot[d].of \in Session \cup {Nothing}
  BY DEF Settle, DeletionIInv, DeletionTypeOK, Deletions
<1>2. slot' \in Deletions
  BY <1>1 DEF Deletions, Free, DeletionStage
<1>3. DeletionTypeOK'
  BY <1>2 DEF Settle, DeletionIInv, DeletionTypeOK, Deletions
<1>4. UndoReachesTheTimer'
  BY <1>1 DEF Settle, DeletionIInv, DeletionTypeOK, UndoReachesTheTimer, Deletions
<1> QED BY <1>3, <1>4 DEF DeletionIInv

LEMMA RequestStep ==
  ASSUME DeletionIInv, NEW d \in Slot, Fire(d) \/ Handle(d)
  PROVE  DeletionIInv'
<1>1. PICK at \in DeletionStage : slot' = [slot EXCEPT ![d].at = at]
  BY DEF Fire, Handle, DeletionStage
<1>2. slot[d].at # "free"
  BY DEF Fire, Handle
<1>3. DeletionTypeOK'
  BY <1>1 DEF Fire, Handle, DeletionIInv, DeletionTypeOK
<1>4. slot'[d].of = slot[d].of /\ \A e \in Slot \ {d} : slot'[e] = slot[e]
  BY <1>1 DEF DeletionIInv, DeletionTypeOK
<1>5. UndoReachesTheTimer'
  BY <1>2, <1>4 DEF Fire, Handle, DeletionIInv, DeletionTypeOK, UndoReachesTheTimer, Free
<1> QED BY <1>3, <1>5 DEF DeletionIInv

LEMMA DeletionSteps ==
  ASSUME DeletionIInv, [DeletionNext]_deletionVars
  PROVE  DeletionIInv'
<1>1. CASE ToastGone \/ UNCHANGED deletionVars
  BY <1>1 DEF ToastGone, deletionVars, DeletionIInv, DeletionTypeOK, UndoReachesTheTimer
<1> QED BY <1>1, QueueStep, ResetStep, SettleStep, RequestStep DEF DeletionNext

LEMMA DeletionAlways == DeletionSpec => []DeletionIInv
  BY DeletionStarts, DeletionSteps, PTL DEF DeletionSpec

\* The state keeps its type, however many deletions overlap.
THEOREM DeletionTypes == DeletionSpec => []DeletionTypeOK
<1>1. DeletionIInv => DeletionTypeOK
  BY DEF DeletionIInv
<1> QED BY DeletionAlways, <1>1, PTL

\* While a deletion is pending, the timer ref belongs to it (the callbacks, undo
\* and the switch of instances reset both together).
THEOREM PendingHasItsTimer == DeletionSpec => []UndoReachesTheTimer
<1>1. DeletionIInv => UndoReachesTheTimer
  BY DEF DeletionIInv
<1> QED BY DeletionAlways, <1>1, PTL

=============================================================================
