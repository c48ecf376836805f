----------------------------- MODULE WalletChain ----------------------------
(***************************************************************************)
(* How the owner UI (ui/src/App.tsx) gets the wallet to the target chain   *)
(* and to the RPC of the app before a job is signed.  A flow is one run of *)
(* connectWallet, ensureTargetChain or signWithConnectedWallet: requests   *)
(* to the wallet one after the other, most of them raced against a timer.  *)
(* A request that timed out stays open in the wallet, and the user may     *)
(* approve it much later.                                                  *)
(*                                                                         *)
(* External: the wallet, which is the provider of the page (window.        *)
(* ethereum), and the target RPC.                                          *)
(***************************************************************************)
EXTENDS Naturals

CONSTANTS
    Flow,        \* calls under way at the same time
    Other,       \* a chain that is not the target
    Target,      \* TARGET_CHAIN_ID
    None,
    Candidates,  \* how many connectors connectWallet tries
    Builds,      \* builds considered: STRICT_WALLET_RPC_MATCH, is
                 \* VITE_TANGLE_CONTRACT set, has the page a provider
    MaxMoves     \* bound on what the user does in the wallet

ASSUME WalletAssumption ==
    /\ Target # Other /\ None \notin {Target, Other}
    /\ Candidates \in Nat \ {0} /\ MaxMoves \in Nat
    /\ Builds \subseteq [strict : BOOLEAN, contract : BOOLEAN, injected : BOOLEAN]

Chain == {Target, Other}
\* What the wallet knows of the target chain: nothing, the RPC of the app, an
\* RPC of another network, or one that does not answer.
Rpc == {"none", "app", "other", "down"}

Reads == {"resolve", "first", "after", "final"}
Switches == {"wagmi", "switch", "switch2", "switch3", "switch4"}
Adds == {"add", "add2", "add3"}
Blocks == {"block", "block2"}
WalletCodes == {"wcode", "wcode2"}
Ended == {"ensured", "signed", "failed"}
Stage == Reads \cup Switches \cup Adds \cup Blocks \cup WalletCodes \cup Ended
             \cup {"idle", "connect", "code", "sign"}

VARIABLES
    build,
    chain,       \* the chain the wallet is on
    rpc,
    connected,   \* isWalletConnected
    seen,        \* activeChainId
    open,        \* prompts of requests that timed out
    flow,
    moves

vars == <<build, chain, rpc, connected, seen, open, flow, moves>>

\* cap: activeChainId of the render the flow was started in; left: connectors
\* not tried yet, or signature requests made.  drift: the user changed the
\* wallet since the flow looked; cause: something other than the code went wrong.
Idle == [at |-> "idle", kind |-> "submit", cap |-> None, left |-> 0,
         drift |-> FALSE, cause |-> FALSE]

TypeOK ==
    /\ build \in Builds
    /\ chain \in Chain /\ rpc \in Rpc /\ (chain = Target => rpc # "none")
    /\ connected \in BOOLEAN /\ seen \in Chain \cup {None}
    /\ open \in SUBSET {"switch", "add"}
    /\ flow \in [Flow -> [at : Stage, kind : {"connect", "submit", "resync", "sign"},
                          cap : Chain \cup {None}, left : 0..Candidates + 4,
                          drift : BOOLEAN, cause : BOOLEAN]]
    /\ moves \in 0..MaxMoves

Init ==
    /\ build \in Builds
    /\ chain \in Chain /\ rpc \in Rpc /\ (chain = Target => rpc # "none")
    /\ connected = FALSE /\ seen = None /\ open = {}
    /\ flow = [f \in Flow |-> Idle]
    /\ moves = 0

-----------------------------------------------------------------------------
(* The user and the wallet *)

UserMoves ==
    /\ moves < MaxMoves
    /\ moves' = moves + 1
    /\ chain' \in Chain /\ rpc' \in Rpc /\ (chain' = Target => rpc' # "none")
    /\ flow' = [f \in Flow |-> [flow[f] EXCEPT !.drift = TRUE, !.cause = TRUE]]
    /\ UNCHANGED <<build, connected, seen, open>>

\* wagmi's event, or the effect that asks for eth_chainId every 7.5 seconds,
\* whose failure counts when wagmi knows no chain.
Poll ==
    /\ connected
    /\ seen' \in {chain, None}
    /\ UNCHANGED <<build, chain, rpc, connected, open, flow, moves>>

Disconnect ==
    /\ connected
    /\ connected' = FALSE /\ seen' = None
    /\ UNCHANGED <<build, chain, rpc, open, flow, moves>>

\* The wallet carries out what it was asked.
Grant(p) ==
    IF p = "add" THEN /\ rpc' = "app"
                      /\ chain' \in {chain, Target}
    ELSE /\ rpc # "none"
         /\ chain' = Target
         /\ UNCHANGED rpc

LatePrompt(p) ==
    /\ p \in open
    /\ open' = open \ {p}
    /\ Grant(p) \/ UNCHANGED <<chain, rpc>>
    /\ UNCHANGED <<build, connected, seen, flow, moves>>

-----------------------------------------------------------------------------
(* Steps of a flow *)

At(f) == flow[f].at
Set(f, s) == flow' = [flow EXCEPT ![f].at = s]
\* The same for something that is not the fault of the code.
Hit(f, s) == flow' = [flow EXCEPT ![f].at = s, ![f].cause = TRUE]

\* forceWalletToTargetChain returns; connectWallet is done, ensureTargetChain
\* compares the code of the contract next.
Forced(f) ==
    IF flow[f].kind # "connect" /\ build.contract THEN "code" ELSE "ensured"

\* An exception: connectWallet goes to its next candidate, ensureTargetChain
\* tells the user.
Throws(f, c) ==
    LET more == flow[f].kind = "connect" /\ flow[f].left > 1
    IN  flow' = [flow EXCEPT ![f].at = IF more THEN "connect" ELSE "failed",
                             ![f].left = IF more THEN @ - 1 ELSE @,
                             ![f].cause = @ \/ c]

\* Whether wagmi switched or not, the wallet is asked where it is; without a
\* provider only the chain of the render is left.
AfterWagmi(f, c) ==
    IF build.injected THEN flow' = [flow EXCEPT ![f].at = "after", ![f].cause = @ \/ c]
    ELSE IF flow[f].cap = Target
         THEN flow' = [flow EXCEPT ![f].at = Forced(f), ![f].cause = @ \/ c]
    ELSE Throws(f, c)

Start(f, k) ==
    /\ At(f) = "idle"
    /\ connected = (k # "connect")
    /\ LET default == k = "submit" /\ ~build.strict
           s == CASE k = "connect" -> "connect"
                  [] k = "sign" -> "sign"
                  [] default -> IF seen = None /\ build.injected THEN "resolve"
                                ELSE IF seen = Target THEN "ensured" ELSE "failed"
                  [] OTHER -> IF build.injected THEN "first" ELSE "wagmi"
       IN  flow' = [flow EXCEPT ![f] =
               [at |-> s, kind |-> k, cap |-> seen,
                left |-> IF k = "connect" THEN Candidates ELSE IF k = "sign" THEN 1 ELSE 0,
                drift |-> seen # chain, cause |-> default /\ seen # Target]]
    /\ UNCHANGED <<build, chain, rpc, connected, seen, open, moves>>

Finish(f) ==
    /\ At(f) \in Ended
    /\ flow' = [flow EXCEPT ![f] = Idle]
    /\ UNCHANGED <<build, chain, rpc, connected, seen, open, moves>>

\* connectAsync
ConnectAnswer(f) ==
    /\ At(f) = "connect"
    /\ \/ /\ connected' = TRUE
          /\ Set(f, IF ~build.strict THEN "ensured" ELSE IF build.injected THEN "first" ELSE "wagmi")
       \/ Throws(f, TRUE) /\ UNCHANGED connected
    /\ UNCHANGED <<build, chain, rpc, seen, open, moves>>

\* Mutant: a switch that the wallet reported done is trusted.
AfterReadTrusting(f, c) ==
    CASE At(f) = "resolve" -> IF c = Target THEN "ensured" ELSE "failed"
      [] At(f) = "first" -> IF c = Target THEN Forced(f) ELSE "wagmi"
      [] At(f) = "after" -> IF c = Target THEN "final" ELSE "switch"
      [] At(f) = "final" -> "block"

\* Where the answer c of eth_chainId leads; None is an error of the request.
AfterRead(f, c) ==
    CASE At(f) = "resolve" -> IF c = Target THEN "ensured" ELSE "failed"
      [] At(f) = "first" -> IF c = Target THEN Forced(f) ELSE "wagmi"
      [] At(f) = "after" -> IF c = Target THEN "final" ELSE "switch"
      [] At(f) = "final" -> IF c = Target THEN "block" ELSE "failed"

ReadAnswer(f) ==
    /\ At(f) \in Reads
    /\ LET c == AfterRead(f, chain)
           n == AfterRead(f, None)
       IN  \/ IF c = "failed" THEN Throws(f, FALSE)
              ELSE flow' = [flow EXCEPT ![f].at = c, ![f].drift = FALSE]
           \/ IF n = "failed" THEN Throws(f, TRUE) ELSE Hit(f, n)
    /\ UNCHANGED <<build, chain, rpc, connected, seen, open, moves>>

\* What follows a request that the wallet granted.
Granted == [switch |-> "final", switch2 |-> "final", switch3 |-> "block2", switch4 |-> "wcode2",
            add |-> "switch2", add2 |-> "switch3", add3 |-> "switch4"]

\* Wagmi adds a chain that the wallet does not know.
Approve(f) ==
    /\ \/ /\ At(f) = "wagmi"
          /\ AfterWagmi(f, FALSE)
          /\ IF rpc = "none" THEN rpc' = "app" /\ chain' = Target ELSE Grant("switch")
       \/ /\ At(f) \in DOMAIN Granted
          /\ Set(f, Granted[At(f)])
          /\ Grant(IF At(f) \in Adds THEN "add" ELSE "switch")
    /\ UNCHANGED <<build, connected, seen, open, moves>>

\* The wallet reports success and stays where it is.
ApproveInVain(f) ==
    /\ \/ At(f) = "wagmi" /\ AfterWagmi(f, TRUE)
       \/ At(f) \in DOMAIN Granted /\ Hit(f, Granted[At(f)])
    /\ UNCHANGED <<build, chain, rpc, connected, seen, open, moves>>

\* Mutant: an unknown chain is taken for a refusal.
UnknownRefused(f) ==
    /\ At(f) \in Switches /\ rpc = "none"
    /\ IF At(f) = "wagmi" THEN AfterWagmi(f, FALSE) ELSE Throws(f, FALSE)
    /\ UNCHANGED <<build, chain, rpc, connected, seen, open, moves>>

\* Error 4902: only the first direct switch answers it by adding the chain.
UnknownChain(f) ==
    /\ At(f) \in Switches /\ rpc = "none"
    /\ CASE At(f) = "wagmi" -> AfterWagmi(f, FALSE)
         [] At(f) = "switch" -> Set(f, "add")
         [] OTHER -> Throws(f, FALSE)
    /\ UNCHANGED <<build, chain, rpc, connected, seen, open, moves>>

Refuse(f) ==
    /\ \/ At(f) = "wagmi" /\ AfterWagmi(f, TRUE)
       \/ At(f) \in DOMAIN Granted /\ Throws(f, TRUE)
    /\ UNCHANGED <<build, chain, rpc, connected, seen, open, moves>>

\* eth_blockNumber: an RPC that does not answer is replaced once.
BlockAnswer(f) ==
    /\ At(f) \in Blocks
    /\ IF chain # Target \/ rpc # "down" THEN Set(f, Forced(f))
       ELSE IF At(f) = "block" THEN Set(f, "add2") ELSE Throws(f, FALSE)
    /\ UNCHANGED <<build, chain, rpc, connected, seen, open, moves>>

\* The code of the contract at the target RPC, which may not be there.
CodeAnswer(f) ==
    /\ At(f) = "code"
    /\ \/ Set(f, IF build.injected THEN "wcode" ELSE "ensured")
       \/ Throws(f, TRUE)
    /\ UNCHANGED <<build, chain, rpc, connected, seen, open, moves>>

\* The code that the wallet sees; if it differs, the wallet gets the RPC of
\* the app, once.
WalletCode(f) ==
    /\ At(f) \in WalletCodes
    /\ \/ IF chain = Target /\ rpc = "app"
          THEN flow' = [flow EXCEPT ![f].at = "ensured", ![f].drift = FALSE]
          ELSE IF At(f) = "wcode" THEN Set(f, "add3") ELSE Throws(f, FALSE)
       \/ IF At(f) = "wcode" THEN Hit(f, "add3") ELSE Throws(f, TRUE)
    /\ UNCHANGED <<build, chain, rpc, connected, seen, open, moves>>

\* Mutant: only what is read is raced against a timer.
TimeOutOfReads(f) ==
    /\ At(f) \in Reads \cup Blocks
    /\ IF At(f) = "block" THEN Hit(f, "add2") ELSE Throws(f, TRUE)
    /\ UNCHANGED <<build, chain, rpc, connected, seen, open, moves>>

\* withTimeout rejects; the prompt stays open.
TimeOut(f) ==
    /\ At(f) \in Reads \cup Blocks \cup Switches \cup Adds
    /\ CASE At(f) = "wagmi" -> AfterWagmi(f, TRUE)
         [] At(f) = "block" -> Hit(f, "add2")
         [] OTHER -> Throws(f, TRUE)
    /\ open' = open \cup (IF At(f) \in Adds THEN {"add"}
                          ELSE IF At(f) \in Switches THEN {"switch"} ELSE {})
    /\ UNCHANGED <<build, chain, rpc, connected, seen, moves>>

\* wagmi is asked for the signature first, the provider of the page next.
WagmiSign(f) ==
    /\ At(f) = "sign" /\ flow[f].left = 1
    /\ \/ Set(f, "signed")
       \/ IF build.injected
          THEN flow' = [flow EXCEPT ![f].left = 2, ![f].cause = TRUE]
          ELSE Hit(f, "failed")
    /\ UNCHANGED <<build, chain, rpc, connected, seen, open, moves>>

\* Mutant: a refused signature is asked for until it is given.
ProviderSignForever(f) ==
    /\ At(f) = "sign" /\ flow[f].left > 1
    /\ \/ Set(f, "signed")
       \/ flow' = [flow EXCEPT ![f].left = @ + 1, ![f].cause = TRUE]
    /\ UNCHANGED <<build, chain, rpc, connected, seen, open, moves>>

\* Three ways to ask the provider, until one gives a signature.
ProviderSign(f) ==
    /\ At(f) = "sign" /\ flow[f].left > 1
    /\ \/ Set(f, "signed")
       \/ IF flow[f].left < 4
          THEN flow' = [flow EXCEPT ![f].left = @ + 1, ![f].cause = TRUE]
          ELSE Hit(f, "failed")
    /\ UNCHANGED <<build, chain, rpc, connected, seen, open, moves>>

-----------------------------------------------------------------------------

Step(f) ==
    \/ \E k \in {"connect", "submit", "resync", "sign"} : Start(f, k)
    \/ Finish(f) \/ ConnectAnswer(f) \/ ReadAnswer(f)
    \/ Approve(f) \/ ApproveInVain(f) \/ UnknownChain(f) \/ Refuse(f)
    \/ BlockAnswer(f) \/ CodeAnswer(f) \/ WalletCode(f) \/ WagmiSign(f) \/ ProviderSign(f)
    \/ TimeOut(f)

Next ==
    \/ UserMoves \/ Poll \/ Disconnect
    \/ \E p \in {"switch", "add"} : LatePrompt(p)
    \/ \E f \in Flow : Step(f)

Spec == Init /\ [][Next]_vars

\* Timers fire, and the two requests without one are answered.
Fairness ==
    \A f \in Flow : WF_vars(TimeOut(f)) /\ WF_vars(CodeAnswer(f) \/ WalletCode(f))

-----------------------------------------------------------------------------

\* Flows that compare the code of the contract.
Compares(f) ==
    flow[f].kind = "resync" \/ (flow[f].kind = "submit" /\ build.strict)

\* A flow that says the wallet is ready left it on the target chain, and with
\* a contract to compare, on the RPC of the app, whatever was refused, timed
\* out or granted late, unless the user changed the wallet after the flow
\* looked (ensureTargetChain, connectWallet).  The exceptions are those of the
\* code: an on-submit check reads no RPC, a wallet that is not the provider of
\* the page cannot be asked, and without STRICT_WALLET_RPC_MATCH connecting
\* checks nothing.
EnsuredOnTarget ==
    \A f \in Flow :
        /\ flow[f].at = "ensured" /\ ~flow[f].drift
        /\ flow[f].kind = "connect" => build.strict /\ build.injected
        => /\ chain = Target
           /\ build.contract /\ build.injected /\ Compares(f) => rpc = "app"

\* With a user who grants every request in time, a wallet that does what it is
\* asked and an RPC that is up, a flow succeeds whatever the wallet knew of the
\* target chain: nothing, a dead RPC or that of another network (the retries of
\* forceWalletToTargetChain and the self-heal of ensureTargetChain).  A check
\* before a job without STRICT_WALLET_RPC_MATCH never asks the wallet to switch:
\* that it saw another chain than the target when it began is a cause by itself.
\* For a wallet that is not the provider of the page this does not hold: line
\* 582 looks at the chain of the render that the flow was started in.
NoFailureWithoutCause ==
    build.injected => \A f \in Flow : flow[f].at = "failed" => flow[f].cause

\* Every check of the chain ends with a notice, even if no prompt is ever
\* answered (withTimeout).
ChecksEnd ==
    \A f \in Flow : flow[f].at # "idle" /\ flow[f].kind \in {"submit", "resync"}
                        ~> flow[f].at \in Ended

=============================================================================
