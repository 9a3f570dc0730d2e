------------------------------ MODULE HolancApp ------------------------------
(***************************************************************************)
(* The web application's session: a page mounts both chains' hooks at once *)
(* (useHolanc), each with a wallet of its own that it makes from the       *)
(* mnemonic in localStorage.  The functions of a hook are coroutines; what *)
(* is left of one is the sequence of awaits it has yet to pass.  A page    *)
(* that is left keeps its coroutines, with the wallets they hold.          *)
(*                                                                         *)
(* A component that has a hook may call any of its functions; the pages of *)
(* the application each call one or two.                                   *)
(***************************************************************************)
EXTENDS HolancWallet, FiniteSets

CONSTANTS
    Calls,       \* calls of the hooks' functions, each made once
    Kinds,       \* the functions each may be of
    Amounts,     \* and the amounts each may be for
    FirstNotes,  \* values of the notes each wallet of a used page has
    MaxPages     \* bound: pages mounted

Hooks == {"solana", "evm"}
Functions == {"deposit", "transfer", "withdraw", "stealthSend", "stealthScan",
              "bridge", "disclose", "wealth"}

ASSUME AppAssumption ==
    /\ Kinds \in [Calls -> SUBSET Functions]
    /\ Amounts \in [Calls -> SUBSET (Nat \ {0})]
    /\ FirstNotes \in Seq(Nat \ {0})
    /\ MaxPages \in Nat \ {0}

VARIABLES
    stored,      \* the key of the mnemonic in localStorage
    page,        \* the page that is shown
    seen,        \* the key each page found stored when it was mounted
    loading,     \* wallets whose initialization has not ended
    wallets,     \* walletRef of the hooks of every page
    status,      \* of the hooks of the page shown
    kind,        \* of each call
    walletOf,    \* the wallet it works on: page and hook
    todo,        \* awaits it has yet to pass, the current first
    result,
    total, inputs, spends, outputs,  \* as in HolancClient
    sent,        \* calls whose transaction was sent
    outcome,     \* what became of it on its chain
    leaves,      \* commitments each chain's pool holds
    nullifiers,  \* commitments whose nullifier it holds
    locked,      \* commitments locked for a bridge transfer
    approval,    \* what became of the approve() a deposit asked for
    allowance    \* of the EVM pool, by the account of the EVM wallet

pageVars == <<stored, page, seen, loading>>
argVars == <<kind, walletOf, total, inputs, spends, outputs>>
chainVars == <<sent, outcome, leaves, nullifiers, locked, approval, allowance>>
vars == <<pageVars, wallets, status, todo, result, argVars, chainVars>>

Ids == (1 .. MaxPages) \X Hooks
Key(id) == <<"key", id>>       \* the key that a hook's generate() makes
None == <<"none">>             \* nothing stored
Payee == <<"payee">>           \* whom transfers go to

Spends == {"transfer", "withdraw", "bridge"}
Deposits == {"deposit", "stealthSend"}
Idle == {"idle", "done", "error"}

-----------------------------------------------------------------------------
(* The awaits of each function, in order.                                  *)

SolanaDeposit     == <<"note", "prove", "sign", "confirm">>
SolanaTransfer    == <<"blinding", "prove", "sign", "confirm">>
SolanaWithdraw    == <<"prepare", "prove", "sign", "confirm">>
SolanaStealthSend == <<"stealth", "note", "sign", "confirm">>
SolanaStealthScan == <<"read">>
SolanaBridge      == <<"prepare", "sign", "confirm">>
SolanaDisclose    == <<"sign", "confirm">>
SolanaWealth      == <<"prove", "sign", "confirm">>

\* _ensureApproval() reads the allowance and may have it raised first.
EvmAdapterDeposit == <<"allowance", "approve", "call", "receipt">>
EvmDeposit        == <<"note", "prove">> \o EvmAdapterDeposit
EvmTransfer       == <<"blinding", "prove", "call", "receipt">>
EvmWithdraw       == <<"prepare", "prove", "call", "receipt">>
EvmStealthSend    == <<"stealth", "note">> \o EvmAdapterDeposit
EvmStealthScan    == <<"read">>

Program(h, k) ==
    CASE h = "solana" /\ k = "deposit"     -> SolanaDeposit
      [] h = "solana" /\ k = "transfer"    -> SolanaTransfer
      [] h = "solana" /\ k = "withdraw"    -> SolanaWithdraw
      [] h = "solana" /\ k = "stealthSend" -> SolanaStealthSend
      [] h = "solana" /\ k = "stealthScan" -> SolanaStealthScan
      [] h = "solana" /\ k = "bridge"      -> SolanaBridge
      [] h = "solana" /\ k = "disclose"    -> SolanaDisclose
      [] h = "solana" /\ k = "wealth"      -> SolanaWealth
      [] h = "evm" /\ k = "deposit"        -> EvmDeposit
      [] h = "evm" /\ k = "transfer"       -> EvmTransfer
      [] h = "evm" /\ k = "withdraw"       -> EvmWithdraw
      [] h = "evm" /\ k = "stealthSend"    -> EvmStealthSend
      [] h = "evm" /\ k = "stealthScan"    -> EvmStealthScan

\* The functions that the EVM hook has only as stubs.
EvmStubs == {"bridge", "disclose", "wealth"}

\* setStatus() before the await.
StatusAt(await) ==
    CASE await \in {"note", "stealth", "blinding", "prepare", "prove", "read"}
            -> "generating"
      [] await \in {"sign", "allowance", "approve", "call", "receipt"} -> "sending"
      [] await = "confirm" -> "confirming"

Awaits == {"note", "stealth", "blinding", "prepare", "prove", "read", "sign",
           "confirm", "allowance", "approve", "call", "receipt"}

-----------------------------------------------------------------------------
\* A first visit, or a page that has been used for deposits on both chains.
FirstKey == Key(<<1, "solana">>)

UsedWallet ==
    [NewWallet(FirstKey) EXCEPT
        !.notes = [k \in DOMAIN FirstNotes |->
            OwnNote(NewWallet(FirstKey), FirstNotes[k], <<FirstKey, k - 1>>)],
        !.nextBlinding = Len(FirstNotes)]

FirstVisit ==
    /\ stored = None
    /\ seen = [p \in 1 .. MaxPages |-> None]
    /\ loading = {<<1, h>> : h \in Hooks}
    /\ wallets = [id \in Ids |-> NewWallet(None)]
    /\ leaves = [h \in Hooks |-> {}]

UsedPage ==
    /\ stored = FirstKey
    /\ seen = [p \in 1 .. MaxPages |-> IF p = 1 THEN stored ELSE None]
    /\ loading = {}
    /\ wallets = [id \in Ids |-> IF id[1] = 1 THEN UsedWallet ELSE NewWallet(None)]
    /\ leaves = [h \in Hooks |-> Commitments(UsedWallet)]

Init ==
    /\ FirstVisit \/ UsedPage
    /\ page = 1
    /\ status = [h \in Hooks |-> "idle"]
    /\ kind = [c \in Calls |-> "none"]
    /\ walletOf = [c \in Calls |-> <<1, "solana">>]
    /\ todo = [c \in Calls |-> <<>>]
    /\ result = [c \in Calls |-> "none"]
    /\ total = [c \in Calls |-> 0]
    /\ inputs = [c \in Calls |-> <<>>]
    /\ spends = [c \in Calls |-> <<>>]
    /\ outputs = [c \in Calls |-> <<>>]
    /\ sent = {}
    /\ outcome = [c \in Calls |-> "none"]
    /\ nullifiers = [h \in Hooks |-> {}]
    /\ locked = {}
    /\ approval = [c \in Calls |-> "none"]
    /\ allowance = 0

Running(c) == todo[c] # <<>>
HookOf(c) == walletOf[c][2]
Wallet(c) == wallets[walletOf[c]]

\* setStatus() of a hook that is not mounted any more does nothing.
SetStatus(id, s) ==
    status' = IF id[1] = page THEN [status EXCEPT ![id[2]] = s] ELSE status

-----------------------------------------------------------------------------
(* Pages.                                                                  *)

\* Mutant: the mnemonic that was found is stored again.
WalletReadyStores(id) ==
    /\ id \in loading
    /\ loading' = loading \ {id}
    /\ LET key == IF seen[id[1]] = None THEN Key(id) ELSE seen[id[1]]
       IN  wallets' = [wallets EXCEPT ![id] = NewWallet(key)] /\ stored' = key
    /\ UNCHANGED <<page, seen, status, todo, result, argVars, chainVars>>

\* init(): the wallet of the mnemonic found, or a new one that is then stored.
WalletReady(id) ==
    /\ id \in loading
    /\ loading' = loading \ {id}
    /\ IF seen[id[1]] = None
       THEN /\ wallets' = [wallets EXCEPT ![id] = NewWallet(Key(id))]
            /\ stored' = Key(id)
       ELSE /\ wallets' = [wallets EXCEPT ![id] = NewWallet(seen[id[1]])]
            /\ UNCHANGED stored
    /\ UNCHANGED <<page, seen, status, todo, result, argVars, chainVars>>

\* Both hooks of the next page are mounted and look for the mnemonic.
Mount(survivors) ==
    /\ page < MaxPages
    /\ page' = page + 1
    /\ seen' = [seen EXCEPT ![page + 1] = stored]
    /\ loading' = survivors \cup {<<page + 1, h>> : h \in Hooks}
    /\ status' = [h \in Hooks |-> "idle"]
    /\ UNCHANGED <<stored, argVars, chainVars>>

\* A link within the application.
Navigate == Mount(loading) /\ UNCHANGED <<wallets, todo, result>>

\* The document is loaded again: everything that was running is gone.
Reload ==
    /\ Mount({})
    /\ wallets' = [id \in Ids |-> NewWallet(None)]
    /\ todo' = [c \in Calls |-> <<>>]
    /\ result' = [c \in Calls |-> IF Running(c) THEN "lost" ELSE result[c]]

\* reset(): the tabs of a page call it whatever is running.
Reset(h) ==
    /\ status' = [status EXCEPT ![h] = "idle"]
    /\ UNCHANGED <<pageVars, wallets, todo, result, argVars, chainVars>>

-----------------------------------------------------------------------------
(* Calls.                                                                  *)

\* The function k of hook h of this page is called, with a status that lets the
\* page's button through, and comes to its first await.
Begin(c, h, k) ==
    /\ kind[c] = "none" /\ k \in Kinds[c]
    /\ h = "evm" => k \notin EvmStubs
    /\ <<page, h>> \notin loading
    /\ status[h] \in Idle
    /\ kind' = [kind EXCEPT ![c] = k]
    /\ walletOf' = [walletOf EXCEPT ![c] = <<page, h>>]
    /\ todo' = [todo EXCEPT ![c] = Program(h, k)]
    /\ status' = [status EXCEPT ![h] = StatusAt(Program(h, k)[1])]
    /\ UNCHANGED <<pageVars, result, chainVars>>

\* createDepositNote() up to its first await, for call c on wallet id.
TakeBlinding(c, id, amount) ==
    /\ outputs' = [outputs EXCEPT ![c] =
                     <<<<wallets[id].key, amount, Blinding(wallets[id])>>>>]
    /\ wallets' = [wallets EXCEPT ![id] = BlindingTaken(@)]

Deposit(c, h, amount) ==
    /\ Begin(c, h, "deposit")
    /\ total' = [total EXCEPT ![c] = amount]
    /\ TakeBlinding(c, <<page, h>>, amount)
    /\ UNCHANGED <<inputs, spends>>

StealthSend(c, h, amount) ==
    /\ Begin(c, h, "stealthSend")
    /\ total' = [total EXCEPT ![c] = amount]
    /\ UNCHANGED <<wallets, inputs, spends, outputs>>

\* prepareTransfer() or prepareWithdraw() selects and locks; bridgeTransfer()
\* prepares a withdrawal whose change note it drops.
Spend(c, h, k, amount, selected) ==
    LET id == <<page, h>>
        w == wallets[id]
        change == Change(w, selected, amount)
    IN  /\ Begin(c, h, k)
        /\ total' = [total EXCEPT ![c] = amount]
        /\ inputs' = [inputs EXCEPT ![c] = selected]
        /\ spends' = [spends EXCEPT ![c] =
                        [i \in DOMAIN selected |-> Commitment(w.notes[selected[i]])]]
        /\ IF k = "transfer"
           THEN /\ outputs' = [outputs EXCEPT ![c] = <<<<Payee, amount, Blinding(w)>>>>]
                /\ wallets' = [wallets EXCEPT ![id] = PrepareTransfer(w, selected)]
           ELSE /\ outputs' = [outputs EXCEPT ![c] =
                                 IF change > 0 /\ k = "withdraw"
                                 THEN <<<<w.key, change, Blinding(w)>>>> ELSE <<>>]
                /\ wallets' = [wallets EXCEPT ![id] = PrepareWithdraw(w, selected, amount)]

\* disclose, wealth and scan: the wallet is only read.
Request(c, h, k) ==
    /\ Begin(c, h, k)
    /\ UNCHANGED <<wallets, total, inputs, spends, outputs>>

\* selectNotes() throws, or the function is a stub: the call ends in an error.
Refused(c, h, k) ==
    /\ kind[c] = "none" /\ k \in Kinds[c]
    /\ <<page, h>> \notin loading
    /\ status[h] \in Idle
    /\ \/ h = "evm" /\ k \in EvmStubs
       \/ /\ k \in Spends
          /\ \E a \in Amounts[c] : Selections(wallets[<<page, h>>], a) = {}
    /\ kind' = [kind EXCEPT ![c] = k]
    /\ walletOf' = [walletOf EXCEPT ![c] = <<page, h>>]
    /\ result' = [result EXCEPT ![c] = "error"]
    /\ status' = [status EXCEPT ![h] = "error"]
    /\ UNCHANGED <<pageVars, wallets, todo, total, inputs, spends, outputs, chainVars>>

-----------------------------------------------------------------------------
(* Awaits.                                                                 *)

\* The current await of c, one of `awaits`, ends well and c goes on to what it
\* has left then.
Pass(c, awaits, left) ==
    /\ Running(c) /\ todo[c][1] \in awaits
    /\ todo' = [todo EXCEPT ![c] = left]
    /\ result' = [result EXCEPT ![c] = IF left = <<>> THEN "done" ELSE @]
    /\ SetStatus(walletOf[c], IF left = <<>> THEN "done" ELSE StatusAt(left[1]))

StealthDerived(c) ==
    /\ Pass(c, {"stealth"}, Tail(todo[c]))
    /\ TakeBlinding(c, walletOf[c], total[c])
    /\ UNCHANGED <<pageVars, kind, walletOf, total, inputs, spends, chainVars>>

\* createDepositNote() puts the note into the wallet, a stealth payment's too.
NoteMade(c) ==
    /\ Pass(c, {"note"}, Tail(todo[c]))
    /\ wallets' = [wallets EXCEPT ![walletOf[c]] =
                     WithNote(@, OwnNote(@, total[c], outputs[c][1][3]))]
    /\ UNCHANGED <<pageVars, argVars, chainVars>>

\* prepareTransfer() derives the change's blinding; its await is joined with the
\* proof's.
ChangePrepared(c) ==
    LET change == Change(Wallet(c), inputs[c], total[c])
    IN  /\ Pass(c, {"blinding"}, Tail(todo[c]))
        /\ IF change > 0
           THEN /\ outputs' = [outputs EXCEPT ![c] =
                                 Append(@, <<Wallet(c).key, change, Blinding(Wallet(c))>>)]
                /\ wallets' = [wallets EXCEPT ![walletOf[c]] = BlindingTaken(@)]
           ELSE UNCHANGED <<outputs, wallets>>
        /\ UNCHANGED <<pageVars, kind, walletOf, total, inputs, spends, chainVars>>

\* Proofs, reads, and awaits without effect.
Passes(c) ==
    /\ Pass(c, {"prepare", "prove", "read"}, Tail(todo[c]))
    /\ UNCHANGED <<pageVars, wallets, argVars, chainVars>>

\* The user signs and the transaction is sent.
Signed(c) ==
    /\ Pass(c, {"sign", "call"}, Tail(todo[c]))
    /\ sent' = sent \cup {c}
    /\ UNCHANGED <<pageVars, wallets, argVars, outcome, leaves, nullifiers, locked,
                   approval, allowance>>

\* _ensureApproval(): approve() is skipped when the allowance covers the amount.
AllowanceRead(c) ==
    /\ Running(c)
    /\ IF allowance < total[c]
       THEN /\ Pass(c, {"allowance"}, Tail(todo[c]))
            /\ approval' = [approval EXCEPT ![c] = "sent"]
       ELSE Pass(c, {"allowance"}, Tail(Tail(todo[c]))) /\ UNCHANGED approval
    /\ UNCHANGED <<pageVars, wallets, argVars, sent, outcome, leaves, nullifiers, locked,
                   allowance>>

\* Mutant: the approval is not waited for.
ApprovedUnawaited(c) ==
    /\ Pass(c, {"approve"}, Tail(todo[c]))
    /\ UNCHANGED <<pageVars, wallets, argVars, chainVars>>

Approved(c) ==
    /\ approval[c] = "done"
    /\ Pass(c, {"approve"}, Tail(todo[c]))
    /\ UNCHANGED <<pageVars, wallets, argVars, chainVars>>

Marked(c) ==
    [wallets EXCEPT ![walletOf[c]] = MarkSpent(@, {spends[c][k] : k \in DOMAIN spends[c]})]

\* confirmTransaction() resolves for a transaction that failed as well: its
\* result's err is not looked at.
Confirmed(c) ==
    /\ outcome[c] # "none"
    /\ Pass(c, {"confirm"}, Tail(todo[c]))
    /\ wallets' = Marked(c)
    /\ UNCHANGED <<pageVars, argVars, chainVars>>

\* Mutant: a receipt is taken for a success.
ReceiptOfAny(c) ==
    /\ outcome[c] # "none"
    /\ Pass(c, {"receipt"}, Tail(todo[c]))
    /\ wallets' = Marked(c)
    /\ UNCHANGED <<pageVars, argVars, chainVars>>

\* wait() rejects for a transaction that reverted.
Receipt(c) ==
    /\ outcome[c] = "ok"
    /\ Pass(c, {"receipt"}, Tail(todo[c]))
    /\ wallets' = Marked(c)
    /\ UNCHANGED <<pageVars, argVars, chainVars>>

\* Mutant: the status is left as it was.
ThrowsSilently(c) ==
    /\ Running(c)
    /\ todo[c][1] = "receipt" => outcome[c] # "none"
    /\ todo' = [todo EXCEPT ![c] = <<>>]
    /\ result' = [result EXCEPT ![c] = "error"]
    /\ sent' \in {sent} \cup (IF todo[c][1] \in {"sign", "call"}
                              THEN {sent \cup {c}} ELSE {})
    /\ UNCHANGED <<pageVars, wallets, status, argVars, outcome, leaves, nullifiers,
                   locked, approval, allowance>>

\* Mutant: the confirmation is waited for without a timeout.
ThrowsNoTimeout(c) ==
    /\ Running(c)
    /\ todo[c][1] \in {"receipt", "confirm"} => outcome[c] # "none"
    /\ todo' = [todo EXCEPT ![c] = <<>>]
    /\ result' = [result EXCEPT ![c] = "error"]
    /\ SetStatus(walletOf[c], "error")
    /\ sent' \in {sent} \cup (IF todo[c][1] \in {"sign", "call"}
                              THEN {sent \cup {c}} ELSE {})
    /\ UNCHANGED <<pageVars, wallets, argVars, outcome, leaves, nullifiers, locked,
                   approval, allowance>>

\* An await throws; of a transaction that was to be sent the answer may be lost.
Throws(c) ==
    /\ Running(c)
    /\ todo[c][1] = "receipt" => outcome[c] # "none"   \* wait() has no timeout
    /\ todo' = [todo EXCEPT ![c] = <<>>]
    /\ result' = [result EXCEPT ![c] = "error"]
    /\ SetStatus(walletOf[c], "error")
    /\ sent' \in {sent} \cup (IF todo[c][1] \in {"sign", "call"}
                              THEN {sent \cup {c}} ELSE {})
    /\ UNCHANGED <<pageVars, wallets, argVars, outcome, leaves, nullifiers, locked,
                   approval, allowance>>

-----------------------------------------------------------------------------
(* The chains.                                                             *)

Shown(c) == {spends[c][k] : k \in DOMAIN spends[c]}

\* What the model holds of a pool allows the transaction.
Acceptable(c) ==
    CASE kind[c] \in Deposits -> HookOf(c) = "evm" => allowance >= total[c]
      [] kind[c] \in {"transfer", "withdraw"} ->
            /\ Cardinality(Shown(c)) = Len(spends[c])
            /\ Shown(c) \subseteq leaves[HookOf(c)] \ nullifiers[HookOf(c)]
      [] kind[c] = "bridge" -> spends[c][1] \notin locked
      [] OTHER -> TRUE

Succeeds(c) ==
    /\ Acceptable(c)
    /\ outcome' = [outcome EXCEPT ![c] = "ok"]
    /\ leaves' = [leaves EXCEPT ![HookOf(c)] =
                    @ \cup {outputs[c][k] : k \in DOMAIN outputs[c]}]
    /\ nullifiers' = [nullifiers EXCEPT ![HookOf(c)] =
                        IF kind[c] = "bridge" THEN @ ELSE @ \cup Shown(c)]
    /\ locked' = IF kind[c] = "bridge" THEN locked \cup {spends[c][1]} ELSE locked
    /\ allowance' = IF kind[c] \in Deposits /\ HookOf(c) = "evm"
                    THEN allowance - total[c] ELSE allowance

\* Any transaction may revert for what the model does not hold: the pool is paused,
\* the token's balance is too small, the note's ciphertext too long, the root or
\* the proof is not taken.
Reverts(c) ==
    /\ outcome' = [outcome EXCEPT ![c] = "failed"]
    /\ UNCHANGED <<leaves, nullifiers, locked, allowance>>

Execute(c) ==
    /\ c \in sent /\ outcome[c] = "none"
    /\ Succeeds(c) \/ Reverts(c)
    /\ UNCHANGED <<pageVars, wallets, status, todo, result, argVars, sent, approval>>

\* The approve() of c is executed, whether or not c is there to see it; one that the
\* user or the token refuses never is.
ApproveExecutes(c) ==
    /\ approval[c] = "sent"
    /\ approval' = [approval EXCEPT ![c] = "done"]
    /\ allowance' = total[c]
    /\ UNCHANGED <<pageVars, wallets, status, todo, result, argVars, sent, outcome,
                   leaves, nullifiers, locked>>

-----------------------------------------------------------------------------
Call(c, h) ==
    \/ \E a \in Amounts[c] :
         \/ Deposit(c, h, a)
         \/ StealthSend(c, h, a)
         \/ \E k \in Spends, s \in Selections(wallets[<<page, h>>], a) :
              Spend(c, h, k, a, s)
    \/ \E k \in {"stealthScan", "disclose", "wealth"} : Request(c, h, k)
    \/ \E k \in Functions : Refused(c, h, k)

Proceed(c) ==
    \/ Throws(c)
    \/ StealthDerived(c) \/ NoteMade(c) \/ ChangePrepared(c) \/ Passes(c)
    \/ AllowanceRead(c) \/ Approved(c) \/ Signed(c) \/ Confirmed(c) \/ Receipt(c)

Next ==
    \/ \E id \in Ids : WalletReady(id)
    \/ Navigate \/ Reload
    \/ \E h \in Hooks : Reset(h)
    \/ \E c \in Calls, h \in Hooks : Call(c, h)
    \/ \E c \in Calls : Proceed(c) \/ Execute(c) \/ ApproveExecutes(c)

Spec == Init /\ [][Next]_vars

\* Every await of a call ends: the user answers the wallet, confirmTransaction()
\* has a timeout.  Only the receipt of a transaction that never executes does not
\* come (Throws).
FairSpec == Spec /\ \A c \in Calls : WF_vars(Proceed(c))

-----------------------------------------------------------------------------
Keys == {Key(id) : id \in Ids} \cup {None}
Blindings == Keys \X Nat
NoteCommitments == (Keys \cup {Payee}) \X Nat \X Blindings

Wallets == [key : Keys,
            notes : Seq([owner : Keys, value : Nat, blinding : Blindings,
                         spent : BOOLEAN, pending : BOOLEAN]),
            nextBlinding : Nat, lastSyncedLeaf : Int]

\* The types of the pages', the calls' and the chains' state.
TypeOK ==
    /\ stored \in Keys /\ page \in 1 .. MaxPages
    /\ seen \in [1 .. MaxPages -> Keys] /\ loading \subseteq Ids
    /\ wallets \in [Ids -> Wallets]
    /\ status \in [Hooks -> Idle \cup {"generating", "sending", "confirming"}]
    /\ kind \in [Calls -> Functions \cup {"none"}]
    /\ walletOf \in [Calls -> Ids]
    /\ todo \in [Calls -> Seq(Awaits)]
    /\ result \in [Calls -> {"none", "done", "error", "lost"}]
    /\ total \in [Calls -> Nat]
    /\ inputs \in [Calls -> Seq(Nat)]
    /\ spends \in [Calls -> Seq(NoteCommitments)]
    /\ outputs \in [Calls -> Seq(NoteCommitments)]
    /\ sent \subseteq Calls
    /\ outcome \in [Calls -> {"none", "ok", "failed"}]
    /\ leaves \in [Hooks -> SUBSET NoteCommitments]
    /\ nullifiers \in [Hooks -> SUBSET NoteCommitments]
    /\ locked \subseteq NoteCommitments
    /\ approval \in [Calls -> {"none", "sent", "done"}]
    /\ allowance \in Nat

\* No hook is left that looked for a mnemonic before there was one.
Settled == \A id \in loading : seen[id[1]] # None

\* Once that is so it stays so, and the key in localStorage never changes any
\* more, whatever pages come and go.  Until then the hooks of a first visit each
\* store a key of their own (useSolanaHolanc.ts "Persist mnemonic in localStorage
\* for note continuity").
StoredKeySettles == [][Settled => Settled' /\ stored' = stored]_vars

\* A note is marked spent only when its nullifier is on the wallet's chain.  The
\* Solana hook marks too early in two cases: the transaction failed when it was
\* executed, or it was a bridge transfer, which nullifies nothing.
SpentIsGone ==
    \A id \in Ids : \A i \in DOMAIN wallets[id].notes :
        LET n == wallets[id].notes[i]
        IN  n.spent =>
              \/ Commitment(n) \in nullifiers[id[2]]
              \/ /\ id[2] = "solana"
                 /\ \E c \in Calls : /\ walletOf[c] = id /\ result[c] = "done"
                                     /\ Commitment(n) \in Shown(c)
                                     /\ kind[c] = "bridge" \/ outcome[c] = "failed"

\* A note is locked only while the call that selected it runs, or for good when
\* that call ended in an error: no catch of the hooks gives a lock back.
LocksExplained ==
    \A id \in Ids : \A i \in DOMAIN wallets[id].notes : wallets[id].notes[i].pending =>
        \E c \in Calls : /\ walletOf[c] = id /\ i \in Positions(inputs[c])
                         /\ Running(c) \/ result[c] = "error"

\* What a page's wallet says of its notes is so: a mark and a lock each have one
\* of the reasons above.
MarksInv == TypeOK /\ SpentIsGone /\ LocksExplained

\* Two output notes have the same blinding only when they were made by different
\* wallet objects: the counter of each page's wallet starts at 0 again.
BlindingsDistinctOnPage ==
    \A c, d \in Calls : \A k \in DOMAIN outputs[c], m \in DOMAIN outputs[d] :
        <<c, k>> # <<d, m>> /\ outputs[c][k][3] = outputs[d][m][3]
            => walletOf[c] # walletOf[d]

\* A page's buttons are disabled only while a call made on it runs, though the
\* status is shared by calls that overlap after a reset and by those of a page
\* that was left.
BusyMeansRunning ==
    \A h \in Hooks : status[h] \notin Idle =>
        \E c \in Calls : Running(c) /\ walletOf[c] = <<page, h>>

\* A deposit that was sent to the EVM pool finds too small an allowance only if
\* another one took from what it had found or been granted, or had its own smaller
\* amount approved instead (_ensureApproval reads the allowance and approves the
\* deposit's amount alone; pool.deposit comes a while later).
AllowanceExplained ==
    \A c \in sent : kind[c] \in Deposits /\ HookOf(c) = "evm" /\ outcome[c] = "none"
                      /\ allowance < total[c]
        => \E d \in Calls \ {c} :
             /\ kind[d] \in Deposits /\ HookOf(d) = "evm"
             /\ outcome[d] = "ok" \/ (approval[d] = "done" /\ total[d] < total[c])

\* The buttons of the Solana hook's page are enabled again some time.
ButtonReturns == (status["solana"] \notin Idle) ~> (status["solana"] \in Idle)

=============================================================================
