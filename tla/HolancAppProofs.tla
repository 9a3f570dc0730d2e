--------------------------- MODULE HolancAppProofs ---------------------------
(***************************************************************************)
(* For every number of calls and pages: when the mnemonic that is stored   *)
(* is there to stay, that a button comes back with the last call of its    *)
(* page, why a deposit of the EVM hook reverts, why a note is marked spent *)
(* or locked, and that no two outputs of a page's wallet share a blinding. *)
(***************************************************************************)
EXTENDS HolancApp, SequenceTheorems, TLAPS

-----------------------------------------------------------------------------
(* The stored mnemonic.                                                    *)

\* A key is there when nobody is left who would make one.
StoredInv == Settled => stored # None

\* The pages change by the four actions about pages only.
LEMMA CallsKeepPages ==
    ASSUME NEW c \in Calls, \/ \E h \in Hooks : Call(c, h)
                           \/ Proceed(c) \/ Execute(c) \/ ApproveExecutes(c)
    PROVE  UNCHANGED pageVars
<1>1. ASSUME NEW h \in Hooks, Call(c, h) PROVE UNCHANGED pageVars
  BY <1>1 DEF Call, Deposit, StealthSend, Spend, Request, Refused, Begin
<1>2. CASE Proceed(c)
  BY <1>2 DEF Proceed, Throws, StealthDerived, NoteMade, ChangePrepared, Passes,
              AllowanceRead, Approved, Signed, Confirmed, Receipt
<1>3. CASE Execute(c) \/ ApproveExecutes(c)
  BY <1>3 DEF Execute, ApproveExecutes
<1> QED
  BY <1>1, <1>2, <1>3

LEMMA KeysAreStored == \A id : Key(id) # None
<1> SUFFICES ASSUME NEW id, Key(id) = None PROVE FALSE
  OBVIOUS
<1>1. Len(Key(id)) = 2 /\ Len(None) = 1
  BY DEF Key, None
<1> QED
  BY <1>1

\* A new page finds the key, or joins those who found none.
LEMMA MountSettles ==
    ASSUME StoredInv, NEW survivors \in SUBSET loading, Mount(survivors),
           \A id \in loading : id[1] # page + 1,
           DOMAIN seen = 1 .. MaxPages, page \in 1 .. MaxPages
    PROVE  /\ stored' = stored
           /\ Settled => Settled'
           /\ StoredInv'
<1>1. page + 1 \in DOMAIN seen
  BY AppAssumption DEF Mount
<1>2. seen'[page + 1] = stored
  BY <1>1 DEF Mount
<1>3. \A id \in loading : seen'[id[1]] = seen[id[1]]
  BY DEF Mount
<1>4. Settled => Settled'
  BY <1>2, <1>3 DEF Mount, Settled, StoredInv
<1>5. <<page + 1, "evm">> \in loading'
  BY DEF Mount, Hooks
<1>6. StoredInv'
  BY <1>2, <1>5 DEF Settled, StoredInv, Mount
<1> QED
  BY <1>4, <1>6 DEF Mount

\* With what the lemma asks of the pages.
PageInv ==
    /\ StoredInv
    /\ DOMAIN seen = 1 .. MaxPages /\ page \in 1 .. MaxPages
    /\ \A id \in loading : id[1] \in 1 .. page

LEMMA PagesKeep ==
    ASSUME PageInv, [Next]_vars
    PROVE  PageInv' /\ (Settled => Settled' /\ stored' = stored)
<1> USE DEF PageInv
<1>1. ASSUME NEW id \in Ids, WalletReady(id)
      PROVE  PageInv' /\ (Settled => Settled' /\ stored' = stored)
  <2>1. stored' # None \/ stored' = stored
    BY <1>1, KeysAreStored DEF WalletReady
  <2>2. CASE seen[id[1]] = None
    BY <1>1, <2>2, KeysAreStored DEF WalletReady, Settled, StoredInv
  <2>3. CASE seen[id[1]] # None
    BY <1>1, <2>3 DEF WalletReady, Settled, StoredInv
  <2> QED
    BY <2>2, <2>3
<1>2. CASE Navigate \/ Reload
  <2>1. PICK survivors \in SUBSET loading : Mount(survivors)
    BY <1>2 DEF Navigate, Reload
  <2>2. \A id \in loading : id[1] # page + 1
    OBVIOUS
  <2>3. DOMAIN seen' = 1 .. MaxPages /\ page' \in 1 .. MaxPages
    BY <2>1, AppAssumption DEF Mount
  <2>4. \A id \in loading' : id[1] \in 1 .. page'
    BY <2>1 DEF Mount
  <2> QED
    BY <2>1, <2>2, <2>3, <2>4, MountSettles
<1>3. CASE UNCHANGED pageVars
  BY <1>3 DEF pageVars, Settled, StoredInv
<1>4. CASE \/ \E h \in Hooks : Reset(h)
           \/ \E c \in Calls, h \in Hooks : Call(c, h)
           \/ \E c \in Calls : Proceed(c) \/ Execute(c) \/ ApproveExecutes(c)
           \/ UNCHANGED vars
  BY <1>3, <1>4, CallsKeepPages DEF Reset, vars
<1> QED
  BY <1>1, <1>2, <1>4 DEF Next

LEMMA FirstPages == Init => PageInv
<1> SUFFICES ASSUME Init PROVE PageInv
  OBVIOUS
<1>1. CASE FirstVisit
  <2>1. <<1, "evm">> \in loading /\ seen[1] = None
    BY <1>1, AppAssumption DEF FirstVisit, Hooks
  <2>2. StoredInv
    BY <2>1 DEF StoredInv, Settled
  <2>3. DOMAIN seen = 1 .. MaxPages /\ page = 1 /\ 1 \in 1 .. MaxPages
    BY <1>1, AppAssumption DEF Init, FirstVisit
  <2>4. \A id \in loading : id[1] = 1
    BY <1>1 DEF FirstVisit
  <2> QED
    BY <2>2, <2>3, <2>4 DEF PageInv
<1>2. CASE UsedPage
  BY <1>2, KeysAreStored, AppAssumption DEF Init, UsedPage, FirstKey, PageInv, StoredInv
<1> QED
  BY <1>1, <1>2 DEF Init

\* StoredKeySettles: when no hook is left that found nothing stored, the key stays
\* for good (init() of both hooks).
THEOREM AppStoredKeySettles == Spec => StoredKeySettles
<1>1. PageInv /\ [Next]_vars => PageInv'
  BY PagesKeep
<1>2. PageInv /\ [Next]_vars => [Settled => Settled' /\ stored' = stored]_vars
  BY PagesKeep
<1> QED
  BY FirstPages, <1>1, <1>2, PTL DEF Spec, StoredKeySettles

-----------------------------------------------------------------------------
(* The status of a page's hooks.                                           *)

BusyInv ==
    /\ DOMAIN status = Hooks /\ DOMAIN todo = Calls
    /\ DOMAIN kind = Calls /\ DOMAIN walletOf = Calls
    /\ \A c \in Calls : kind[c] = "none" => ~Running(c)
    /\ \A c \in Calls : walletOf[c] = <<walletOf[c][1], walletOf[c][2]>>
    /\ BusyMeansRunning

\* Call c, of this page's hook h, is at its first await.
Begins(c, h) ==
    /\ kind[c] = "none"
    /\ \E k \in Functions : kind' = [kind EXCEPT ![c] = k]
    /\ walletOf' = [walletOf EXCEPT ![c] = <<page, h>>]
    /\ \E p : p # <<>> /\ todo' = [todo EXCEPT ![c] = p]
    /\ \E s : status' = [status EXCEPT ![h] = s]
    /\ UNCHANGED page

\* It throws before there is one.
Ends(c, h) ==
    /\ kind[c] = "none"
    /\ \E k \in Functions : kind' = [kind EXCEPT ![c] = k]
    /\ walletOf' = [walletOf EXCEPT ![c] = <<page, h>>]
    /\ status' = [status EXCEPT ![h] = "error"]
    /\ UNCHANGED <<page, todo>>

\* It passes an await, or ends, with the status that says so.
Continues(c) ==
    /\ Running(c)
    /\ \E left, s : /\ todo' = [todo EXCEPT ![c] = left]
                    /\ SetStatus(walletOf[c], s)
                    /\ left = <<>> => s \in Idle
    /\ UNCHANGED <<page, kind, walletOf>>

LEMMA LongerThanNone ==
    ASSUME NEW S, NEW a \in S, NEW b \in S, NEW t \in Seq(S)
    PROVE  <<a, b>> \o t # <<>>
<1>1. <<a, b>> \in Seq(S) /\ Len(<<a, b>>) = 2
  OBVIOUS
<1>2. Len(<<a, b>> \o t) = 2 + Len(t) /\ Len(t) \in Nat
  BY <1>1
<1> QED
  BY <1>2

LEMMA ProgramsAwait ==
    ASSUME NEW h \in Hooks, NEW k \in Functions, h = "evm" => k \notin EvmStubs
    PROVE  Program(h, k) # <<>>
<1> USE DEF Functions, EvmStubs, Program
<1>1. CASE h = "solana"
  BY <1>1 DEF SolanaDeposit, SolanaTransfer, SolanaWithdraw, SolanaStealthSend,
              SolanaStealthScan, SolanaBridge, SolanaDisclose, SolanaWealth
<1>2. CASE h = "evm"
  <2>1. EvmAdapterDeposit \in Seq(Awaits) /\ Len(EvmAdapterDeposit) = 4
    BY DEF EvmAdapterDeposit, Awaits
  <2>2. EvmDeposit # <<>> /\ EvmStealthSend # <<>>
    BY <2>1, LongerThanNone DEF EvmDeposit, EvmStealthSend, Awaits
  <2> QED
    BY <1>2, <2>2 DEF EvmTransfer, EvmWithdraw, EvmStealthScan
<1> QED
  BY <1>1, <1>2 DEF Hooks

LEMMA CallsBegin ==
    ASSUME NEW c \in Calls, NEW h \in Hooks, Call(c, h)
    PROVE  Begins(c, h) \/ Ends(c, h)
<1>1. ASSUME NEW k \in Functions, Begin(c, h, k)
      PROVE  Begins(c, h)
  BY <1>1, ProgramsAwait DEF Begin, Begins, pageVars
<1>2. ASSUME NEW k \in Functions, Refused(c, h, k)
      PROVE  Ends(c, h)
  BY <1>2 DEF Refused, Ends, pageVars
<1>3. /\ Spends \subseteq Functions /\ {"deposit", "stealthSend"} \subseteq Functions
      /\ {"stealthScan", "disclose", "wealth"} \subseteq Functions
  BY DEF Spends, Functions
<1> QED
  BY <1>1, <1>2, <1>3 DEF Call, Deposit, StealthSend, Spend, Request

LEMMA AwaitsContinue ==
    ASSUME NEW c \in Calls, Proceed(c)
    PROVE  Continues(c)
<1> USE DEF Continues, pageVars, argVars
<1>1. ASSUME NEW awaits, NEW left, Pass(c, awaits, left), UNCHANGED <<page, kind, walletOf>>
      PROVE  Continues(c)
  BY <1>1 DEF Pass, Idle
<1>2. CASE Throws(c)
  BY <1>2 DEF Throws, Idle
<1>3. CASE StealthDerived(c) \/ NoteMade(c) \/ ChangePrepared(c) \/ Passes(c)
  BY <1>1, <1>3 DEF StealthDerived, NoteMade, ChangePrepared, Passes
<1>4. CASE AllowanceRead(c) \/ Approved(c) \/ Signed(c) \/ Confirmed(c) \/ Receipt(c)
  BY <1>1, <1>4 DEF AllowanceRead, Approved, Signed, Confirmed, Receipt
<1> QED
  BY <1>2, <1>3, <1>4 DEF Proceed

LEMMA BusyKeeps ==
    ASSUME BusyInv, [Next]_vars
    PROVE  BusyInv'
<1> USE DEF BusyInv, BusyMeansRunning, Running
<1>1. ASSUME NEW c \in Calls, NEW h \in Hooks, Begins(c, h) PROVE BusyInv'
  BY <1>1 DEF Begins, Functions
<1>2. ASSUME NEW c \in Calls, NEW h \in Hooks, Ends(c, h) PROVE BusyInv'
  BY <1>2 DEF Ends, Functions, Idle
<1>3. ASSUME NEW c \in Calls, Continues(c) PROVE BusyInv'
  BY <1>3 DEF Continues, SetStatus
<1>4. ASSUME NEW survivors, Mount(survivors), UNCHANGED walletOf,
             todo' = todo \/ todo' = [c \in Calls |-> <<>>]
      PROVE  BusyInv'
  BY <1>4 DEF Mount, argVars, Idle
<1>5. CASE Navigate \/ Reload
  BY <1>4, <1>5 DEF Navigate, Reload, Mount, argVars
<1>6. CASE \E h \in Hooks : Reset(h)
  BY <1>6 DEF Reset, pageVars, argVars, Idle
<1>7. CASE \/ \E id \in Ids : WalletReady(id)
           \/ \E c \in Calls : Execute(c) \/ ApproveExecutes(c)
           \/ UNCHANGED vars
  BY <1>7 DEF WalletReady, Execute, ApproveExecutes, vars, pageVars, argVars
<1> QED
  BY <1>1, <1>2, <1>3, <1>5, <1>6, <1>7, CallsBegin, AwaitsContinue DEF Next

\* BusyMeansRunning: a page's buttons are disabled only while one of its calls
\* runs, for any number of overlapping calls (setStatus() and reset() of the hooks).
THEOREM AppBusyMeansRunning == Spec => []BusyMeansRunning
<1>1. Init => BusyInv
  BY DEF Init, BusyInv, BusyMeansRunning, Running, Idle
<1>2. BusyInv /\ [Next]_vars => BusyInv'
  BY BusyKeeps
<1>3. BusyInv => BusyMeansRunning
  BY DEF BusyInv
<1> QED
  BY <1>1, <1>2, <1>3, PTL DEF Spec

-----------------------------------------------------------------------------
(* Calls and their awaits.                                                 *)

Last == {"confirm", "receipt", "read"}

\* What an await says of the function it belongs to.
Fits(await, h, k) ==
    /\ await = "confirm" => h = "solana"
    /\ await = "sign" => h = "solana"
    /\ await = "receipt" => h = "evm"
    /\ await = "read" => k = "stealthScan"
    /\ await = "note" => k \in Deposits
    /\ await = "blinding" => k = "transfer"
    /\ await \in {"allowance", "approve"} => h = "evm" /\ k \in Deposits

\* What the programs have in common.
Orderly(P, h, k) ==
    /\ P \in Seq(Awaits) /\ P # <<>>
    /\ k = "stealthSend" => P[1] = "stealth"
    /\ \A i \in 1 .. Len(P) :
         /\ Fits(P[i], h, k)
         /\ P[i] \in Last <=> i = Len(P)
         /\ P[i] = "allowance" => i + 2 <= Len(P) /\ P[i + 1] = "approve"
         /\ P[i] = "call" /\ k \in Deposits => i > 1 /\ P[i - 1] = "approve"
         /\ P[i] \in {"stealth", "blinding"} => i = 1
         /\ P[i] \in {"approve", "call"} => P[i + 1] \in {"call", "receipt"}

\* t is what is left of P after m awaits.
LeftOf(t, P, m) ==
    /\ Len(t) = Len(P) - m
    /\ \A i \in 1 .. Len(t) : t[i] = P[m + i]

Underway(c) ==
    /\ kind[c] \in Functions /\ result[c] = "none"
    /\ HookOf(c) = "evm" => kind[c] \notin EvmStubs
    /\ \E m \in 0 .. Len(Program(HookOf(c), kind[c])) - 1 :
         LeftOf(todo[c], Program(HookOf(c), kind[c]), m)

CallInv ==
    /\ page \in 1 .. MaxPages
    /\ kind \in [Calls -> Functions \cup {"none"}]
    /\ walletOf \in [Calls -> Ids]
    /\ todo \in [Calls -> Seq(Awaits)]
    /\ result \in [Calls -> {"none", "done", "error", "lost"}]
    /\ sent \subseteq Calls
    /\ outcome \in [Calls -> {"none", "ok", "failed"}]
    /\ \A c \in Calls : Running(c) => Underway(c)
    /\ \A c \in Calls : kind[c] = "none" => result[c] = "none" /\ c \notin sent
    /\ \A c \in Calls : outcome[c] # "none" => c \in sent

\* The programs of the deposits of the EVM hook, in one tuple each.
LEMMA AdapterPrograms ==
    ASSUME NEW a \in Awaits, NEW b \in Awaits
    PROVE  LET P == <<a, b>> \o EvmAdapterDeposit
           IN  /\ P \in Seq(Awaits) /\ Len(P) = 6
               /\ P[1] = a /\ P[2] = b /\ P[3] = "allowance" /\ P[4] = "approve"
               /\ P[5] = "call" /\ P[6] = "receipt"
<1> DEFINE t == EvmAdapterDeposit
           s == <<a, b>>
<1>1. /\ t \in Seq(Awaits) /\ Len(t) = 4 /\ t[1] = "allowance" /\ t[2] = "approve"
      /\ t[3] = "call" /\ t[4] = "receipt"
  BY DEF EvmAdapterDeposit, Awaits
<1>2. s \in Seq(Awaits) /\ Len(s) = 2 /\ s[1] = a /\ s[2] = b
  OBVIOUS
<1> HIDE DEF s, t
<1>3. /\ s \o t \in Seq(Awaits) /\ Len(s \o t) = Len(s) + Len(t)
      /\ \A i \in 1 .. Len(s) + Len(t) :
           (s \o t)[i] = IF i <= Len(s) THEN s[i] ELSE t[i - Len(s)]
  BY <1>1, <1>2, ConcatProperties, Zenon
<1>4. Len(s \o t) = 6 /\ \A i \in 1 .. 6 : (s \o t)[i] = IF i <= 2 THEN s[i] ELSE t[i - 2]
  BY <1>1, <1>2, <1>3
<1>5. (s \o t)[1] = a /\ (s \o t)[2] = b /\ (s \o t)[3] = t[1] /\ (s \o t)[4] = t[2]
      /\ (s \o t)[5] = t[3] /\ (s \o t)[6] = t[4]
  BY <1>2, <1>4
<1> QED
  BY <1>1, <1>3, <1>4, <1>5 DEF s, t

LEMMA SixAwaits ==
    ASSUME NEW h, NEW k, NEW P \in Seq(Awaits), Len(P) = 6, h = "evm", k \in Deposits,
           k = "stealthSend" => P[1] = "stealth",
           P[1] \in {"note", "stealth"}, P[2] \in {"note", "prove"}, P[3] = "allowance",
           P[4] = "approve", P[5] = "call", P[6] = "receipt"
    PROVE  Orderly(P, h, k)
<1>1. P # <<>>
  OBVIOUS
<1>2. ASSUME NEW i \in 1 .. Len(P), i = 1 \/ i = 2
      PROVE  P[i] \in {"note", "stealth", "prove"} /\ i # Len(P)
  BY <1>2
<1>3. ASSUME NEW i \in 1 .. Len(P)
      PROVE  \/ i \in {1, 2} /\ P[i] \in {"note", "stealth", "prove"}
             \/ i = 3 /\ P[i] = "allowance"
             \/ i = 4 /\ P[i] = "approve"
             \/ i = 5 /\ P[i] = "call"
             \/ i = 6 /\ P[i] = "receipt"
  BY <1>2
<1> QED
  BY <1>1, <1>3 DEF Orderly, Fits, Last

\* Every function has such a program.
LEMMA ProgramsOrderly ==
    ASSUME NEW h \in Hooks, NEW k \in Functions, h = "evm" => k \notin EvmStubs
    PROVE  Orderly(Program(h, k), h, k)
<1> DEFINE P == Program(h, k)
<1>1. CASE h = "evm" /\ k \in Deposits
  <2>1. \/ P = <<"note", "prove">> \o EvmAdapterDeposit /\ k = "deposit"
        \/ P = <<"stealth", "note">> \o EvmAdapterDeposit /\ k = "stealthSend"
    BY <1>1 DEF Program, Deposits, EvmDeposit, EvmStealthSend
  <2>2. {"note", "prove", "stealth"} \subseteq Awaits
    BY DEF Awaits
  <2>3. /\ P \in Seq(Awaits) /\ Len(P) = 6 /\ P[3] = "allowance" /\ P[4] = "approve"
        /\ P[5] = "call" /\ P[6] = "receipt"
        /\ P[1] \in {"note", "stealth"} /\ P[2] \in {"note", "prove"}
        /\ k = "stealthSend" => P[1] = "stealth"
    <3> HIDE DEF P
    <3>1. ASSUME NEW a \in Awaits, NEW b \in Awaits, P = <<a, b>> \o EvmAdapterDeposit
          PROVE  /\ P \in Seq(Awaits) /\ Len(P) = 6 /\ P[1] = a /\ P[2] = b
                 /\ P[3] = "allowance" /\ P[4] = "approve"
                 /\ P[5] = "call" /\ P[6] = "receipt"
      BY <3>1, AdapterPrograms
    <3> QED
      BY <2>1, <2>2, <3>1
  <2> HIDE DEF P
  <2> QED
    BY <1>1, <2>3, SixAwaits DEF P
<1>2. CASE h = "solana"
  <2> USE <1>2 DEF Program, Orderly, Fits, Last, Deposits, Awaits
  <2>1. CASE k = "deposit"
    BY <2>1 DEF SolanaDeposit
  <2>2. CASE k = "transfer"
    BY <2>2 DEF SolanaTransfer
  <2>3. CASE k = "withdraw"
    BY <2>3 DEF SolanaWithdraw
  <2>4. CASE k = "stealthSend"
    BY <2>4 DEF SolanaStealthSend
  <2>5. CASE k = "stealthScan"
    BY <2>5 DEF SolanaStealthScan
  <2>6. CASE k = "bridge"
    BY <2>6 DEF SolanaBridge
  <2>7. CASE k = "disclose"
    BY <2>7 DEF SolanaDisclose
  <2>8. CASE k = "wealth"
    BY <2>8 DEF SolanaWealth
  <2> QED
    BY <2>1, <2>2, <2>3, <2>4, <2>5, <2>6, <2>7, <2>8 DEF Functions
<1>3. CASE h = "evm" /\ k \notin Deposits
  <2> USE <1>3 DEF Program, Orderly, Fits, Last, Deposits, Awaits
  <2>1. CASE k = "transfer"
    BY <2>1 DEF EvmTransfer
  <2>2. CASE k = "withdraw"
    BY <2>2 DEF EvmWithdraw
  <2>3. CASE k = "stealthScan"
    BY <2>3 DEF EvmStealthScan
  <2> QED
    BY <2>1, <2>2, <2>3 DEF Functions, EvmStubs
<1> QED
  BY <1>1, <1>2, <1>3 DEF Hooks

\* What follows an await.
LEMMA Advancing ==
    ASSUME NEW h, NEW k, NEW P, Orderly(P, h, k), NEW m \in 0 .. Len(P) - 1,
           NEW t \in Seq(Awaits), LeftOf(t, P, m)
    PROVE  /\ t # <<>> /\ Fits(t[1], h, k) /\ Tail(t) \in Seq(Awaits)
           /\ Tail(t) = <<>> <=> t[1] \in Last
           /\ Tail(t) # <<>> => m + 1 \in 0 .. Len(P) - 1 /\ LeftOf(Tail(t), P, m + 1)
           /\ Tail(t) # <<>> /\ Tail(t)[1] = "call" /\ k \in Deposits => t[1] = "approve"
           /\ Tail(t) # <<>> => Tail(t)[1] \notin {"stealth", "blinding"}
           /\ t[1] = "allowance" => Tail(t) # <<>> /\ Tail(t)[1] = "approve"
           /\ t[1] \in {"approve", "call"} /\ Tail(t) # <<>> =>
                Tail(t)[1] \in {"call", "receipt"}
<1>1. Len(P) \in Nat /\ Len(t) = Len(P) - m /\ t[1] = P[m + 1] /\ m + 1 \in 1 .. Len(P)
  BY DEF Orderly, LeftOf
<1>2. t # <<>>
  BY <1>1
<1>3. /\ Tail(t) \in Seq(Awaits) /\ Len(Tail(t)) = Len(t) - 1
      /\ \A i \in 1 .. Len(Tail(t)) : Tail(t)[i] = t[i + 1]
  BY <1>2, HeadTailProperties
<1>4. Tail(t) = <<>> <=> m + 1 = Len(P)
  <2>1. Tail(t) = <<>> <=> Len(Tail(t)) = 0
    BY <1>3, EmptySeq, Zenon
  <2> QED
    BY <1>1, <1>3, <2>1
<1>5. Fits(t[1], h, k) /\ (t[1] \in Last <=> m + 1 = Len(P))
  BY <1>1 DEF Orderly
<1>6. ASSUME Tail(t) # <<>>
      PROVE  /\ m + 1 \in 0 .. Len(P) - 1 /\ LeftOf(Tail(t), P, m + 1)
             /\ Tail(t)[1] = P[m + 2] /\ m + 2 \in 1 .. Len(P)
  <2>1. m + 1 \in 0 .. Len(P) - 1 /\ m + 2 \in 1 .. Len(P)
    BY <1>1, <1>4, <1>6
  <2>2. \A i \in 1 .. Len(Tail(t)) : Tail(t)[i] = P[(m + 1) + i]
    <3> SUFFICES ASSUME NEW i \in 1 .. Len(Tail(t)) PROVE Tail(t)[i] = P[(m + 1) + i]
      OBVIOUS
    <3>1. i + 1 \in 1 .. Len(t) /\ m + (i + 1) = (m + 1) + i
      BY <1>1, <1>3
    <3> QED
      BY <1>3, <3>1 DEF LeftOf
  <2>3. 1 \in 1 .. Len(Tail(t)) /\ (m + 1) + 1 = m + 2
    BY <1>1, <1>3, <2>1
  <2> QED
    BY <1>1, <1>3, <2>1, <2>2, <2>3 DEF LeftOf
<1>7. ASSUME Tail(t) # <<>>
      PROVE  /\ Tail(t)[1] = "call" /\ k \in Deposits => t[1] = "approve"
             /\ Tail(t)[1] \notin {"stealth", "blinding"}
  <2>1. (m + 2) - 1 = m + 1 /\ m + 2 # 1
    BY <1>1
  <2> QED
    BY <1>1, <1>6, <1>7, <2>1 DEF Orderly
<1>8. t[1] = "allowance" => Tail(t) # <<>> /\ Tail(t)[1] = "approve"
  <2>1. (m + 1) + 1 = m + 2
    BY <1>1
  <2> DEFINE i == m + 1
  <2>2. i \in 1 .. Len(P) /\ t[1] = P[i] /\ i + 1 = m + 2
    BY <1>1, <2>1
  <2> HIDE DEF i
  <2>3. t[1] = "allowance" => P[m + 2] = "approve"
    BY <2>2 DEF Orderly
  <2>4. t[1] = "allowance" => t[1] \notin Last
    BY DEF Last
  <2> QED
    BY <1>4, <1>5, <1>6, <2>3, <2>4
<1>9. t[1] \in {"approve", "call"} /\ Tail(t) # <<>> => Tail(t)[1] \in {"call", "receipt"}
  <2> DEFINE i == m + 1
  <2>1. i \in 1 .. Len(P) /\ t[1] = P[i] /\ i + 1 = m + 2
    BY <1>1
  <2> HIDE DEF i
  <2>2. t[1] \in {"approve", "call"} => P[m + 2] \in {"call", "receipt"}
    BY <2>1 DEF Orderly
  <2> QED
    BY <1>6, <2>2
<1> QED
  BY <1>2, <1>3, <1>4, <1>5, <1>6, <1>7, <1>8, <1>9

\* Where a running call stands, in the words of the invariant.
LEMMA WhereItStands ==
    ASSUME CallInv, NEW c \in Calls, Running(c)
    PROVE  /\ kind[c] \in Functions /\ result[c] = "none"
           /\ HookOf(c) = "evm" => kind[c] \notin EvmStubs
           /\ Fits(todo[c][1], HookOf(c), kind[c])
           /\ Tail(todo[c]) \in Seq(Awaits)
           /\ Tail(todo[c]) = <<>> <=> todo[c][1] \in Last
           /\ Tail(todo[c]) # <<>> =>
                /\ Tail(todo[c])[1] \notin {"stealth", "blinding"}
                /\ Tail(todo[c])[1] = "call" /\ kind[c] \in Deposits => todo[c][1] = "approve"
           /\ todo[c][1] = "allowance" => Tail(todo[c]) # <<>> /\ Tail(todo[c])[1] = "approve"
           /\ todo[c][1] \in {"approve", "call"} /\ Tail(todo[c]) # <<>> =>
                Tail(todo[c])[1] \in {"call", "receipt"}
<1>1. Underway(c) /\ HookOf(c) \in Hooks
  BY DEF CallInv, Ids, HookOf
<1>2. Orderly(Program(HookOf(c), kind[c]), HookOf(c), kind[c])
  BY <1>1, ProgramsOrderly DEF Underway
<1>3. PICK m \in 0 .. Len(Program(HookOf(c), kind[c])) - 1 :
         LeftOf(todo[c], Program(HookOf(c), kind[c]), m)
  BY <1>1 DEF Underway
<1>4. todo[c] \in Seq(Awaits)
  BY DEF CallInv
<1> DEFINE h == HookOf(c)
           k == kind[c]
           t == todo[c]
           P == Program(HookOf(c), kind[c])
<1> HIDE DEF h, k, t, P
<1>5. /\ Fits(t[1], h, k) /\ Tail(t) \in Seq(Awaits)
      /\ Tail(t) = <<>> <=> t[1] \in Last
      /\ Tail(t) # <<>> /\ Tail(t)[1] = "call" /\ k \in Deposits => t[1] = "approve"
      /\ Tail(t) # <<>> => Tail(t)[1] \notin {"stealth", "blinding"}
      /\ t[1] = "allowance" => Tail(t) # <<>> /\ Tail(t)[1] = "approve"
      /\ t[1] \in {"approve", "call"} /\ Tail(t) # <<>> => Tail(t)[1] \in {"call", "receipt"}
  BY <1>2, <1>3, <1>4, Advancing DEF h, k, t, P
<1> QED
  BY <1>1, <1>5 DEF Underway, h, k, t

callVars == <<kind, walletOf, todo, result, sent, outcome>>

\* Call c passes an await, or two where the allowance suffices.
Advances(c) ==
    /\ Running(c)
    /\ \E left :
         /\ \/ left = Tail(todo[c])
            \/ todo[c][1] = "allowance" /\ left = Tail(Tail(todo[c]))
         /\ todo' = [todo EXCEPT ![c] = left]
         /\ result' = [result EXCEPT ![c] = IF left = <<>> THEN "done" ELSE @]
    /\ sent' \in {sent, sent \cup {c}}
    /\ UNCHANGED <<page, kind, walletOf, outcome>>

LEMMA AwaitsAdvance ==
    ASSUME NEW c \in Calls, Proceed(c)
    PROVE  Advances(c) \/ Throws(c)
<1> USE DEF pageVars, argVars, chainVars
<1>0. ASSUME NEW awaits, NEW left, Pass(c, awaits, left),
             \/ left = Tail(todo[c])
             \/ todo[c][1] = "allowance" /\ left = Tail(Tail(todo[c])),
             sent' \in {sent, sent \cup {c}}, UNCHANGED <<page, kind, walletOf, outcome>>
      PROVE  Advances(c)
  BY <1>0 DEF Advances, Pass
<1>1. CASE StealthDerived(c) \/ NoteMade(c) \/ ChangePrepared(c) \/ Passes(c)
  BY <1>0, <1>1 DEF StealthDerived, NoteMade, ChangePrepared, Passes
<1>2. CASE AllowanceRead(c)
  <2>1. PICK left \in {Tail(todo[c]), Tail(Tail(todo[c]))} :
          /\ Pass(c, {"allowance"}, left) /\ todo[c][1] = "allowance"
          /\ UNCHANGED <<page, kind, walletOf, sent, outcome>>
    BY <1>2 DEF AllowanceRead, Pass
  <2> QED
    BY <1>0, <2>1
<1>3. CASE Approved(c) \/ Signed(c) \/ Confirmed(c) \/ Receipt(c)
  BY <1>0, <1>3 DEF Approved, Signed, Confirmed, Receipt
<1> QED
  BY <1>1, <1>2, <1>3 DEF Proceed

LEMMA CallsBeginOrEnd ==
    ASSUME NEW c \in Calls, NEW h \in Hooks, Call(c, h)
    PROVE  \E k \in Functions : Begin(c, h, k) \/ Refused(c, h, k)
<1>1. /\ Spends \subseteq Functions /\ {"deposit", "stealthSend"} \subseteq Functions
      /\ {"stealthScan", "disclose", "wealth"} \subseteq Functions
  BY DEF Spends, Functions
<1> QED
  BY <1>1 DEF Call, Deposit, StealthSend, Spend, Request

LEMMA BeginKeepsCalls ==
    ASSUME CallInv, NEW c \in Calls, NEW h \in Hooks, NEW k \in Functions, Begin(c, h, k)
    PROVE  CallInv'
<1> DEFINE P == Program(h, k)
<1>1. h = "evm" => k \notin EvmStubs
  BY DEF Begin
<1>2. P \in Seq(Awaits) /\ P # <<>>
  BY <1>1, ProgramsOrderly DEF Orderly
<1>3. \E m \in 0 .. Len(P) - 1 : LeftOf(P, P, m)
  <2>1. 0 \in 0 .. Len(P) - 1 /\ LeftOf(P, P, 0)
    BY <1>2 DEF LeftOf
  <2> QED
    BY <2>1
<1>4. /\ kind' = [kind EXCEPT ![c] = k] /\ walletOf' = [walletOf EXCEPT ![c] = <<page, h>>]
      /\ todo' = [todo EXCEPT ![c] = P]
      /\ UNCHANGED <<page, result, sent, outcome>>
  BY DEF Begin, pageVars, chainVars
<1> HIDE DEF P
<1>5. /\ kind'[c] = k /\ walletOf'[c] = <<page, h>> /\ todo'[c] = P /\ result'[c] = "none"
      /\ kind'[c] # "none"
  BY <1>4 DEF CallInv, Begin, Functions
<1>6. HookOf(c)' = h
  BY <1>5 DEF HookOf
<1>7. Underway(c)'
  BY <1>1, <1>3, <1>5, <1>6 DEF Underway, P
<1>8. \A d \in Calls : d # c => (Running(d)' => Underway(d)')
  BY <1>4 DEF CallInv, Underway, Running, HookOf
<1>9. <<page, h>> \in Ids
  BY DEF CallInv, Ids
<1> QED
  BY <1>2, <1>4, <1>5, <1>7, <1>8, <1>9 DEF CallInv

LEMMA AdvanceKeepsCalls ==
    ASSUME CallInv, NEW c \in Calls, Advances(c)
    PROVE  CallInv'
<1> DEFINE P == Program(HookOf(c), kind[c])
<1>1. PICK left :
        /\ \/ left = Tail(todo[c])
           \/ todo[c][1] = "allowance" /\ left = Tail(Tail(todo[c]))
        /\ todo' = [todo EXCEPT ![c] = left]
        /\ result' = [result EXCEPT ![c] = IF left = <<>> THEN "done" ELSE @]
  BY DEF Advances
<1>2. Underway(c) /\ HookOf(c) \in Hooks /\ todo[c] \in Seq(Awaits)
  BY DEF CallInv, Ids, HookOf, Advances
<1>3. Orderly(P, HookOf(c), kind[c])
  BY <1>2, ProgramsOrderly DEF Underway
<1>4. PICK m \in 0 .. Len(P) - 1 : LeftOf(todo[c], P, m)
  BY <1>2 DEF Underway
<1> HIDE DEF P
<1>5. left \in Seq(Awaits) /\ (left # <<>> => \E n \in 0 .. Len(P) - 1 : LeftOf(left, P, n))
  <2>1. /\ Tail(todo[c]) \in Seq(Awaits)
        /\ Tail(todo[c]) # <<>> => m + 1 \in 0 .. Len(P) - 1 /\ LeftOf(Tail(todo[c]), P, m + 1)
    BY <1>2, <1>3, <1>4, Advancing
  <2>2. CASE left = Tail(todo[c])
    BY <2>1, <2>2
  <2>3. CASE todo[c][1] = "allowance" /\ left = Tail(Tail(todo[c]))
    <3> DEFINE t == Tail(todo[c])
    <3>1. t # <<>>
      BY <1>2, <1>3, <1>4, <2>3, Advancing
    <3>2. m + 1 \in 0 .. Len(P) - 1 /\ LeftOf(t, P, m + 1) /\ t \in Seq(Awaits)
      BY <2>1, <3>1
    <3> HIDE DEF t
    <3>3. /\ Tail(t) \in Seq(Awaits)
          /\ Tail(t) # <<>> => (m + 1) + 1 \in 0 .. Len(P) - 1 /\ LeftOf(Tail(t), P, (m + 1) + 1)
      BY <1>3, <3>2, Advancing
    <3> QED
      BY <2>3, <3>3 DEF t
  <2> QED
    BY <1>1, <2>2, <2>3
<1>6. Running(c)' => Underway(c)'
  <2>1. /\ kind' = kind /\ walletOf' = walletOf /\ todo'[c] = left
        /\ left # <<>> => result'[c] = result[c]
    BY <1>1 DEF CallInv, Advances
  <2>2. HookOf(c)' = HookOf(c)
    BY <2>1 DEF HookOf
  <2> QED
    BY <1>2, <1>5, <2>1, <2>2 DEF Underway, Running, P
<1>7. \A d \in Calls : d # c => (Running(d)' => Underway(d)')
  BY <1>1 DEF Advances, CallInv, Underway, Running, HookOf
<1>8. todo' \in [Calls -> Seq(Awaits)] /\ result' \in [Calls -> {"none", "done", "error", "lost"}]
  BY <1>1, <1>5 DEF CallInv
<1>9. \A d \in Calls : kind'[d] = "none" => result'[d] = "none" /\ d \notin sent'
  <2>1. kind[c] # "none"
    BY <1>2 DEF Underway, Functions
  <2> QED
    BY <1>1, <2>1 DEF CallInv, Advances
<1> QED
  BY <1>6, <1>7, <1>8, <1>9 DEF CallInv, Advances

LEMMA ThrowKeepsCalls ==
    ASSUME CallInv, NEW c \in Calls, Throws(c)
    PROVE  CallInv'
<1>1. kind[c] # "none"
  BY DEF CallInv, Throws, Underway, Functions
<1>2. /\ todo' = [todo EXCEPT ![c] = <<>>] /\ result' = [result EXCEPT ![c] = "error"]
      /\ sent' \in {sent, sent \cup {c}} /\ UNCHANGED <<page, kind, walletOf, outcome>>
  BY DEF Throws, pageVars, argVars
<1>3. \A d \in Calls : Running(d)' => d # c
  BY <1>2 DEF CallInv, Running
<1>4. \A d \in Calls : Running(d)' => Underway(d)'
  BY <1>2, <1>3 DEF CallInv, Running, Underway, HookOf
<1>5. <<>> \in Seq(Awaits)
  OBVIOUS
<1> QED
  BY <1>1, <1>2, <1>4, <1>5 DEF CallInv

LEMMA CallsKeep ==
    ASSUME CallInv, [Next]_vars
    PROVE  CallInv'
<1>1. ASSUME NEW c \in Calls, NEW h \in Hooks, Call(c, h)
      PROVE  CallInv'
  <2>1. ASSUME NEW k \in Functions, Refused(c, h, k) PROVE CallInv'
    <3>1. /\ kind[c] = "none" /\ kind' = [kind EXCEPT ![c] = k]
          /\ walletOf' = [walletOf EXCEPT ![c] = <<page, h>>]
          /\ result' = [result EXCEPT ![c] = "error"] /\ UNCHANGED <<page, todo, sent, outcome>>
      BY <2>1 DEF Refused, pageVars, chainVars
    <3>2. <<page, h>> \in Ids /\ kind'[c] # "none" /\ ~Running(c)
      BY <3>1 DEF CallInv, Ids, Functions, Underway
    <3>3. \A d \in Calls : Running(d)' => Underway(d)'
      BY <3>1, <3>2 DEF CallInv, Running, Underway, HookOf
    <3> QED
      BY <3>1, <3>2, <3>3 DEF CallInv
  <2> QED
    BY <1>1, <2>1, CallsBeginOrEnd, BeginKeepsCalls
<1>2. ASSUME NEW c \in Calls, Proceed(c)
      PROVE  CallInv'
  BY <1>2, AwaitsAdvance, AdvanceKeepsCalls, ThrowKeepsCalls
<1>3. ASSUME NEW c \in Calls, Execute(c)
      PROVE  CallInv'
  <2>1. /\ c \in sent /\ UNCHANGED <<page, kind, walletOf, todo, result, sent>>
        /\ \E o \in {"ok", "failed"} : outcome' = [outcome EXCEPT ![c] = o]
    BY <1>3 DEF Execute, Succeeds, Reverts, pageVars, argVars
  <2> QED
    BY <2>1 DEF CallInv, Running, Underway, HookOf
<1>4. CASE Reload
  <2>1. /\ page' \in 1 .. MaxPages /\ UNCHANGED <<kind, walletOf, sent, outcome>>
        /\ todo' = [c \in Calls |-> <<>>]
        /\ result' = [c \in Calls |-> IF Running(c) THEN "lost" ELSE result[c]]
    BY <1>4, AppAssumption DEF Reload, Mount, argVars, chainVars, CallInv
  <2>2. \A c \in Calls : ~Running(c)' /\ (kind[c] = "none" => ~Running(c))
    BY <2>1 DEF CallInv, Running, Underway, Functions
  <2>3. <<>> \in Seq(Awaits)
    OBVIOUS
  <2> QED
    BY <2>1, <2>2, <2>3 DEF CallInv
<1>5. CASE \/ Navigate \/ (\E id \in Ids : WalletReady(id)) \/ (\E h \in Hooks : Reset(h))
           \/ (\E c \in Calls : ApproveExecutes(c)) \/ UNCHANGED vars
  <2>1. page' \in 1 .. MaxPages /\ UNCHANGED callVars
    BY <1>5, AppAssumption DEF Navigate, Mount, WalletReady, Reset, ApproveExecutes, vars, pageVars, argVars, chainVars, callVars,
                CallInv
  <2> QED
    BY <2>1 DEF CallInv, Running, Underway, HookOf, callVars
<1> QED
  BY <1>1, <1>2, <1>3, <1>4, <1>5 DEF Next

LEMMA FirstCalls == Init => CallInv
<1> SUFFICES ASSUME Init PROVE CallInv
  OBVIOUS
<1>1. <<1, "solana">> \in Ids /\ 1 \in 1 .. MaxPages
  BY AppAssumption DEF Ids, Hooks
<1>2. <<>> \in Seq(Awaits)
  OBVIOUS
<1> QED
  BY <1>1, <1>2 DEF Init, CallInv, Running

-----------------------------------------------------------------------------
(* The deposits of the EVM hook and the allowance.                         *)

OfEvm(c) == kind[c] \in Deposits /\ HookOf(c) = "evm"

\* c has been granted its allowance, or found it.
Granted(c) ==
    \/ c \in sent
    \/ Running(c) /\ todo[c][1] = "call"
    \/ Running(c) /\ todo[c][1] = "approve" /\ approval[c] = "done"

\* Another deposit used up what c was granted, or was granted less.
UsedUp(c) ==
    \E d \in Calls \ {c} :
        OfEvm(d) /\ (outcome[d] = "ok" \/ (approval[d] = "done" /\ total[d] < total[c]))

Covered(c) == outcome[c] # "none" \/ allowance >= total[c] \/ UsedUp(c)

\* Only what an EVM deposit asked for, when it was there, is approved.
ApprovalsAsked ==
    \A c \in Calls : approval[c] # "none" =>
        OfEvm(c) /\ (Running(c) => todo[c][1] \in {"approve", "call", "receipt"})

AllowanceInv ==
    /\ CallInv
    /\ total \in [Calls -> Nat] /\ allowance \in Nat
    /\ approval \in [Calls -> {"none", "sent", "done"}]
    /\ ApprovalsAsked
    /\ \A c \in Calls : OfEvm(c) /\ Granted(c) => Covered(c)

\* The deposits that have begun are what they were.
DepositsStay ==
    \A d \in Calls : OfEvm(d) =>
        /\ OfEvm(d)' /\ total'[d] = total[d]
        /\ outcome[d] # "none" => outcome'[d] = outcome[d]
        /\ approval[d] = "done" => approval'[d] = "done"

LEMMA StillUsedUp ==
    ASSUME NEW c \in Calls, UsedUp(c), DepositsStay, total'[c] = total[c]
    PROVE  UsedUp(c)'
<1>1. PICK d \in Calls \ {c} :
         OfEvm(d) /\ (outcome[d] = "ok" \/ (approval[d] = "done" /\ total[d] < total[c]))
  BY DEF UsedUp
<1>2. OfEvm(d)' /\ (outcome'[d] = "ok" \/ (approval'[d] = "done" /\ total'[d] < total'[c]))
  BY <1>1 DEF DepositsStay
<1> QED
  BY <1>1, <1>2 DEF UsedUp

LEMMA StillCovered ==
    ASSUME NEW c \in Calls, OfEvm(c), Covered(c), DepositsStay,
           allowance >= total[c] => Covered(c)'
    PROVE  Covered(c)'
<1>1. total'[c] = total[c] /\ (outcome[c] # "none" => outcome'[c] # "none")
  BY DEF DepositsStay
<1> QED
  BY <1>1, StillUsedUp DEF Covered

LEMMA QuietAllowance ==
    ASSUME AllowanceInv, CallInv', DepositsStay, total' \in [Calls -> Nat],
           approval' \in [Calls -> {"none", "sent", "done"}], ApprovalsAsked',
           allowance' = allowance,
           \A c \in Calls : OfEvm(c)' /\ Granted(c)' =>
             OfEvm(c) /\ (Granted(c) \/ allowance >= total[c])
    PROVE  AllowanceInv'
<1> SUFFICES ASSUME NEW c \in Calls, OfEvm(c)', Granted(c)' PROVE Covered(c)'
  BY DEF AllowanceInv
<1>1. OfEvm(c) /\ (Granted(c) \/ allowance >= total[c]) /\ total'[c] = total[c]
  BY DEF DepositsStay
<1>2. Covered(c)
  BY <1>1 DEF AllowanceInv, Covered
<1>3. allowance >= total[c] => Covered(c)'
  BY <1>1 DEF Covered
<1> QED
  BY <1>1, <1>2, <1>3, StillCovered

LEMMA CallsAndAllowance ==
    ASSUME AllowanceInv, CallInv', NEW c \in Calls, NEW h \in Hooks, Call(c, h)
    PROVE  AllowanceInv'
<1>1. /\ kind[c] = "none" /\ c \notin sent
      /\ \E k \in Functions : kind' = [kind EXCEPT ![c] = k]
      /\ \E id : walletOf' = [walletOf EXCEPT ![c] = id]
      /\ UNCHANGED chainVars
  BY CallsBeginOrEnd DEF Begin, Refused, AllowanceInv, CallInv
<1>2. total' = total \/ \E a \in Amounts[c] : total' = [total EXCEPT ![c] = a]
  BY DEF Call, Deposit, StealthSend, Spend, Request, Refused
<1>3. total' \in [Calls -> Nat] /\ \A d \in Calls : d # c => total'[d] = total[d]
  BY <1>2, AppAssumption DEF AllowanceInv
<1>4. ~OfEvm(c) /\ approval[c] = "none" /\ approval' = approval
  BY <1>1 DEF OfEvm, Deposits, AllowanceInv, ApprovalsAsked, chainVars
<1>5. \A d \in Calls : d # c => (OfEvm(d)' <=> OfEvm(d))
  BY <1>1 DEF OfEvm, HookOf, AllowanceInv, CallInv
<1>6. DepositsStay
  BY <1>1, <1>3, <1>4, <1>5 DEF DepositsStay, chainVars
<1>7. ~(OfEvm(c)' /\ Granted(c)')
  <2>1. ASSUME NEW k \in Functions, Begin(c, h, k), k \in Deposits
        PROVE  todo'[c][1] # "call"
    <3>1. Orderly(Program(h, k), h, k) /\ todo'[c] = Program(h, k)
      BY <2>1, ProgramsOrderly DEF Begin, AllowanceInv, CallInv
    <3>2. 1 \in 1 .. Len(Program(h, k))
      BY <3>1 DEF Orderly
    <3> QED
      BY <2>1, <3>1, <3>2 DEF Orderly
  <2>2. ASSUME NEW k \in Functions, Begin(c, h, k)
        PROVE  ~(OfEvm(c)' /\ Granted(c)')
    <3>1. kind'[c] = k
      BY <2>2 DEF Begin, AllowanceInv, CallInv
    <3> QED
      BY <1>1, <1>4, <2>1, <2>2, <3>1 DEF OfEvm, Granted, chainVars
  <2>3. ASSUME NEW k \in Functions, Refused(c, h, k)
        PROVE  ~Granted(c)'
    BY <1>1, <2>3 DEF Refused, Granted, Running, chainVars, AllowanceInv, CallInv, Underway,
                      Functions
  <2> QED
    BY <2>2, <2>3, CallsBeginOrEnd
<1>8. \A d \in Calls : d # c => todo'[d] = todo[d]
  <2>1. todo' = todo \/ \E p : todo' = [todo EXCEPT ![c] = p]
    BY CallsBeginOrEnd DEF Begin, Refused
  <2> QED
    BY <2>1 DEF AllowanceInv, CallInv
<1>9. \A d \in Calls : d # c => (Granted(d)' <=> Granted(d))
  BY <1>1, <1>8 DEF Granted, Running, chainVars
<1>10. ApprovalsAsked'
  BY <1>4, <1>5, <1>8 DEF ApprovalsAsked, Running, AllowanceInv
<1>11. /\ allowance' = allowance /\ approval' \in [Calls -> {"none", "sent", "done"}]
       /\ \A d \in Calls : OfEvm(d)' /\ Granted(d)' => OfEvm(d) /\ Granted(d)
  BY <1>1, <1>5, <1>7, <1>9 DEF chainVars, AllowanceInv
<1> QED
  BY <1>3, <1>6, <1>10, <1>11, QuietAllowance

\* What an await does to a deposit's progress towards the pool.
LEMMA AwaitsTowardsPool ==
    ASSUME CallInv, total \in [Calls -> Nat], allowance \in Nat, NEW c \in Calls, Proceed(c)
    PROVE  /\ Running(c) /\ allowance' = allowance
           /\ UNCHANGED <<kind, walletOf, total, outcome>>
           /\ \E p : todo' = [todo EXCEPT ![c] = p]
           /\ sent' \in {sent, sent \cup {c}}
           /\ sent' # sent => todo[c][1] \in {"sign", "call"}
           /\ \/ todo'[c] = <<>>
              \/ todo'[c] = Tail(todo[c])
              \/ /\ todo[c][1] = "allowance" /\ allowance >= total[c]
                 /\ todo'[c] = Tail(Tail(todo[c]))
           /\ todo[c][1] = "approve" /\ todo'[c] # <<>> => approval[c] = "done"
           /\ \/ approval' = approval
              \/ /\ todo[c][1] = "allowance" /\ todo'[c] = Tail(todo[c])
                 /\ approval' = [approval EXCEPT ![c] = "sent"]
<1>1. /\ Running(c) /\ UNCHANGED <<kind, walletOf, total, outcome, allowance>>
      /\ \E p : todo' = [todo EXCEPT ![c] = p]
      /\ sent' \in {sent, sent \cup {c}}
  BY AwaitsAdvance
     DEF Proceed, Advances, Throws, StealthDerived, NoteMade, ChangePrepared, Passes, Signed,
         AllowanceRead, Approved, Confirmed, Receipt, pageVars, argVars, chainVars
<1> DEFINE Quiet == /\ todo'[c] \in {<<>>, Tail(todo[c])} /\ approval' = approval
                    /\ sent' # sent => todo[c][1] \in {"sign", "call"}
                    /\ todo[c][1] = "approve" /\ todo'[c] # <<>> => approval[c] = "done"
<1>2. ASSUME NEW awaits, Pass(c, awaits, Tail(todo[c])),
             "approve" \in awaits => approval[c] = "done",
             approval' = approval, sent' # sent => awaits \subseteq {"sign", "call"}
      PROVE  Quiet
  BY <1>2 DEF Pass, CallInv
<1>3. CASE Throws(c)
  <2>1. /\ todo' = [todo EXCEPT ![c] = <<>>] /\ approval' = approval
        /\ sent' # sent => todo[c][1] \in {"sign", "call"}
    BY <1>3 DEF Throws
  <2>2. todo'[c] = <<>>
    BY <2>1 DEF CallInv
  <2> QED
    BY <1>1, <2>1, <2>2
<1>4. CASE AllowanceRead(c)
  <2>1. /\ todo[c][1] = "allowance" /\ sent' = sent
        /\ \/ /\ todo' = [todo EXCEPT ![c] = Tail(todo[c])]
              /\ approval' = [approval EXCEPT ![c] = "sent"]
           \/ /\ todo' = [todo EXCEPT ![c] = Tail(Tail(todo[c]))] /\ approval' = approval
              /\ ~(allowance < total[c])
    BY <1>4 DEF AllowanceRead, Pass
  <2>2. total[c] \in Nat /\ (~(allowance < total[c]) => allowance >= total[c])
    OBVIOUS
  <2>3. \A p : todo' = [todo EXCEPT ![c] = p] => todo'[c] = p
    BY DEF CallInv
  <2>4. todo[c][1] # "approve"
    BY <2>1
  <2> QED
    BY <1>1, <2>1, <2>2, <2>3, <2>4
<1>5. CASE Quiet
  BY <1>1, <1>5
<1> HIDE DEF Quiet
<1>6. CASE Approved(c)
  <2>1. /\ approval[c] = "done" /\ UNCHANGED <<sent, approval>>
        /\ Pass(c, {"approve"}, Tail(todo[c]))
    BY <1>6 DEF Approved, chainVars
  <2>2. Quiet
    BY <1>2, <2>1
  <2> QED
    BY <1>5, <2>2
<1>7. CASE Signed(c)
  <2>1. Quiet
    BY <1>2, <1>7 DEF Signed
  <2> QED
    BY <1>5, <2>1
<1>8. CASE ~(Approved(c) \/ Signed(c) \/ Throws(c) \/ AllowanceRead(c))
  <2>1. /\ UNCHANGED <<sent, approval>>
        /\ \E awaits : "approve" \notin awaits /\ Pass(c, awaits, Tail(todo[c]))
    BY <1>8 DEF Proceed, StealthDerived, NoteMade, ChangePrepared, Passes, Confirmed, Receipt,
                chainVars
  <2>2. Quiet
    BY <1>2, <2>1
  <2> QED
    BY <1>5, <2>2
<1> QED
  BY <1>3, <1>4, <1>6, <1>7, <1>8

LEMMA AwaitsAndAllowance ==
    ASSUME AllowanceInv, CallInv', NEW c \in Calls, Proceed(c)
    PROVE  AllowanceInv'
<1> DEFINE t == todo[c]
           left == todo'[c]
<1>1. /\ CallInv /\ total \in [Calls -> Nat] /\ allowance \in Nat
      /\ approval \in [Calls -> {"none", "sent", "done"}]
  BY DEF AllowanceInv
<1>2. /\ Running(c) /\ allowance' = allowance
      /\ UNCHANGED <<kind, walletOf, total, outcome>>
      /\ \E p : todo' = [todo EXCEPT ![c] = p]
      /\ sent' \in {sent, sent \cup {c}}
      /\ sent' # sent => t[1] \in {"sign", "call"}
      /\ \/ left = <<>>
         \/ left = Tail(t)
         \/ /\ t[1] = "allowance" /\ allowance >= total[c]
            /\ left = Tail(Tail(t))
      /\ t[1] = "approve" /\ left # <<>> => approval[c] = "done"
      /\ \/ approval' = approval
         \/ /\ t[1] = "allowance" /\ left = Tail(t)
            /\ approval' = [approval EXCEPT ![c] = "sent"]
  BY <1>1, AwaitsTowardsPool
<1>3. /\ Fits(t[1], HookOf(c), kind[c])
      /\ Tail(t) = <<>> <=> t[1] \in Last
      /\ t[1] = "allowance" => Tail(t) # <<>> /\ Tail(t)[1] = "approve"
      /\ Tail(t) # <<>> /\ Tail(t)[1] = "call" /\ kind[c] \in Deposits => t[1] = "approve"
      /\ t[1] \in {"approve", "call"} /\ Tail(t) # <<>> => Tail(t)[1] \in {"call", "receipt"}
  BY <1>1, <1>2, WhereItStands
<1>4. \A d \in Calls : /\ OfEvm(d)' <=> OfEvm(d)
                       /\ d # c => todo'[d] = todo[d] /\ approval'[d] = approval[d]
                                   /\ (d \in sent' <=> d \in sent)
  BY <1>1, <1>2 DEF OfEvm, HookOf, CallInv
<1>5. approval[c] # "none" => OfEvm(c) /\ t[1] \in {"approve", "call", "receipt"}
  BY <1>2 DEF AllowanceInv, ApprovalsAsked
<1>6. approval' \in [Calls -> {"none", "sent", "done"}]
  BY <1>1, <1>2
<1>7. DepositsStay
  <2>1. approval[c] = "done" => approval'[c] = "done"
    BY <1>2, <1>5
  <2> QED
    BY <1>2, <1>4, <2>1 DEF DepositsStay
<1>8. ApprovalsAsked'
  <2>1. approval'[c] # "none" => OfEvm(c) /\ (left # <<>> =>
          left[1] \in {"approve", "call", "receipt"})
    <3>1. CASE approval' = approval
      BY <1>2, <1>3, <1>5, <3>1 DEF Last
    <3>2. CASE t[1] = "allowance" /\ left = Tail(t)
      BY <1>3, <3>2 DEF Fits, OfEvm
    <3> QED
      BY <1>2, <3>1, <3>2
  <2>2. \A d \in Calls : d # c /\ approval'[d] # "none" => OfEvm(d) /\ (Running(d)' =>
          todo'[d][1] \in {"approve", "call", "receipt"})
    BY <1>4 DEF AllowanceInv, ApprovalsAsked, Running
  <2> QED
    BY <1>4, <2>1, <2>2 DEF ApprovalsAsked, Running
<1>9. OfEvm(c) /\ Granted(c)' => Granted(c) \/ allowance >= total[c]
  <2> SUFFICES ASSUME OfEvm(c), Granted(c)', ~(allowance >= total[c]) PROVE Granted(c)
    OBVIOUS
  <2>1. left # <<>> => left = Tail(t)
    BY <1>2
  <2>2. CASE c \in sent'
    BY <1>2, <1>3, <2>2 DEF Granted, OfEvm, Fits
  <2>3. CASE left # <<>> /\ left[1] = "call"
    <3>1. t[1] = "approve"
      BY <1>3, <2>1, <2>3 DEF OfEvm
    <3> QED
      BY <1>2, <2>3, <3>1 DEF Granted
  <2>4. CASE left # <<>> /\ left[1] = "approve" /\ approval'[c] = "done"
    <3>1. approval[c] = "done"
      BY <1>1, <1>2, <2>4
    <3> QED
      BY <1>3, <1>5, <2>1, <2>4, <3>1 DEF Last
  <2> QED
    BY <2>2, <2>3, <2>4 DEF Granted, Running
<1>10. ASSUME NEW d \in Calls, OfEvm(d)', Granted(d)'
       PROVE  OfEvm(d) /\ (Granted(d) \/ allowance >= total[d])
  <2>1. CASE d = c
    BY <1>4, <1>9, <1>10, <2>1
  <2>2. CASE d # c
    BY <1>4, <1>10, <2>2 DEF Granted, Running
  <2> QED
    BY <2>1, <2>2
<1> QED
  BY <1>1, <1>2, <1>6, <1>7, <1>8, <1>10, QuietAllowance

LEMMA ExecutionAndAllowance ==
    ASSUME AllowanceInv, CallInv', NEW c \in Calls, Execute(c)
    PROVE  AllowanceInv'
<1>1. /\ c \in sent /\ outcome[c] = "none"
      /\ UNCHANGED <<kind, walletOf, total, todo, sent, approval>>
  BY DEF Execute, argVars
<1>2. \A d \in Calls : (OfEvm(d)' <=> OfEvm(d)) /\ (Granted(d)' <=> Granted(d))
  BY <1>1 DEF OfEvm, HookOf, Granted, Running
<1>3. \E o \in {"ok", "failed"} : outcome' = [outcome EXCEPT ![c] = o]
  BY DEF Execute, Succeeds, Reverts
<1>4. \A d \in Calls : d # c => outcome'[d] = outcome[d]
  BY <1>3 DEF AllowanceInv, CallInv
<1>5. outcome'[c] # "none"
  BY <1>3 DEF AllowanceInv, CallInv
<1>6. DepositsStay
  BY <1>1, <1>2, <1>4 DEF DepositsStay
<1>7. ApprovalsAsked'
  BY <1>1, <1>2 DEF AllowanceInv, ApprovalsAsked, Running
<1>8. total[c] \in Nat /\ allowance \in Nat
  BY DEF AllowanceInv
<1>9. CASE Succeeds(c)
  <2>1. /\ OfEvm(c) => allowance >= total[c] /\ allowance' = allowance - total[c]
        /\ ~OfEvm(c) => allowance' = allowance
    BY <1>9 DEF Succeeds, Acceptable, OfEvm, Deposits
  <2>2. outcome'[c] = "ok" /\ allowance' \in Nat
    BY <1>8, <1>9, <2>1 DEF Succeeds, AllowanceInv, CallInv
  <2>3. ASSUME NEW d \in Calls, OfEvm(d)', Granted(d)' PROVE Covered(d)'
    <3>1. OfEvm(d) /\ Covered(d)
      BY <1>2, <2>3 DEF AllowanceInv
    <3>2. CASE d = c
      BY <2>2, <3>2 DEF Covered
    <3>3. CASE d # c /\ OfEvm(c)
      BY <1>2, <2>2, <3>3 DEF Covered, UsedUp
    <3>4. CASE ~OfEvm(c)
      BY <1>1, <1>6, <2>1, <3>1, <3>4, StillCovered DEF Covered
    <3> QED
      BY <3>2, <3>3, <3>4
  <2> QED
    BY <1>1, <1>7, <2>2, <2>3 DEF AllowanceInv
<1>10. CASE Reverts(c)
  <2>1. allowance' = allowance
    BY <1>10 DEF Reverts
  <2>2. ASSUME NEW d \in Calls, OfEvm(d)', Granted(d)'
        PROVE  OfEvm(d) /\ (Granted(d) \/ allowance >= total[d])
    BY <1>2, <2>2
  <2> QED
    BY <1>1, <1>6, <1>7, <2>1, <2>2, QuietAllowance DEF AllowanceInv
<1> QED
  BY <1>9, <1>10 DEF Execute

LEMMA ApprovalAndAllowance ==
    ASSUME AllowanceInv, CallInv', NEW c \in Calls, ApproveExecutes(c)
    PROVE  AllowanceInv'
<1>1. /\ approval[c] = "sent" /\ approval' = [approval EXCEPT ![c] = "done"]
      /\ allowance' = total[c]
      /\ UNCHANGED <<kind, walletOf, total, todo, sent, outcome>>
  BY DEF ApproveExecutes, argVars
<1>2. /\ total \in [Calls -> Nat] /\ approval'[c] = "done"
      /\ approval' \in [Calls -> {"none", "sent", "done"}]
      /\ \A d \in Calls : d # c => approval'[d] = approval[d]
  BY <1>1 DEF AllowanceInv
<1>3. \A d \in Calls : OfEvm(d)' <=> OfEvm(d)
  BY <1>1 DEF OfEvm, HookOf
<1>4. OfEvm(c) /\ (Running(c) => todo[c][1] \in {"approve", "call", "receipt"})
  BY <1>1 DEF AllowanceInv, ApprovalsAsked
<1>5. DepositsStay
  BY <1>1, <1>2, <1>3 DEF DepositsStay
<1>6. ApprovalsAsked'
  BY <1>1, <1>2, <1>3, <1>4 DEF AllowanceInv, ApprovalsAsked, Running
<1>7. ASSUME NEW d \in Calls, OfEvm(d)', Granted(d)' PROVE Covered(d)'
  <2>1. CASE d = c
    BY <1>1, <1>2, <2>1 DEF Covered
  <2>2. CASE d # c
    <3>1. OfEvm(d) /\ Covered(d)
      BY <1>1, <1>2, <1>3, <1>7, <2>2 DEF AllowanceInv, Granted, Running
    <3>2. total[c] < total[d] => Covered(d)'
      BY <1>1, <1>2, <1>3, <1>4, <2>2 DEF Covered, UsedUp
    <3>3. ~(total[c] < total[d]) => Covered(d)'
      BY <1>1, <1>2 DEF Covered
    <3> QED
      BY <3>2, <3>3
  <2> QED
    BY <2>1, <2>2
<1> QED
  BY <1>1, <1>2, <1>6, <1>7 DEF AllowanceInv

LEMMA AllowanceKeeps ==
    ASSUME AllowanceInv, [Next]_vars
    PROVE  AllowanceInv'
<1>1. CallInv'
  BY CallsKeep DEF AllowanceInv
<1>2. CASE \/ Navigate \/ Reload \/ (\E id \in Ids : WalletReady(id))
           \/ (\E h \in Hooks : Reset(h)) \/ UNCHANGED vars
  <2>1. UNCHANGED <<kind, walletOf, total, sent, outcome, approval, allowance>>
    BY <1>2 DEF Navigate, Reload, Mount, WalletReady, Reset, vars, pageVars, argVars, chainVars
  <2>2. todo' = todo \/ todo' = [c \in Calls |-> <<>>]
    BY <1>2 DEF Navigate, Reload, WalletReady, Reset, vars
  <2>3. \A c \in Calls : (OfEvm(c)' <=> OfEvm(c)) /\ (Granted(c)' => Granted(c))
    BY <2>1, <2>2 DEF OfEvm, HookOf, Granted, Running
  <2>4. DepositsStay /\ ApprovalsAsked'
    BY <2>1, <2>2, <2>3 DEF DepositsStay, ApprovalsAsked, AllowanceInv, Running
  <2> QED
    BY <1>1, <2>1, <2>3, <2>4, QuietAllowance DEF AllowanceInv
<1> QED
  BY <1>1, <1>2, CallsAndAllowance, AwaitsAndAllowance, ExecutionAndAllowance,
     ApprovalAndAllowance DEF Next

\* AllowanceExplained: whatever deposits of the EVM hook overlap, on any number of
\* pages, one that is sent finds too small an allowance only if another took from it
\* or had it lowered (_ensureApproval() of adapters/evm.ts).
THEOREM AppAllowanceExplained == Spec => []AllowanceExplained
<1>1. Init => AllowanceInv
  BY FirstCalls DEF Init, AllowanceInv, ApprovalsAsked, OfEvm, Deposits
<1>2. AllowanceInv /\ [Next]_vars => AllowanceInv'
  BY AllowanceKeeps
<1>3. AllowanceInv => AllowanceExplained
  <2> SUFFICES ASSUME AllowanceInv, NEW c \in sent, OfEvm(c), outcome[c] = "none",
                      allowance < total[c]
               PROVE  UsedUp(c)
    BY DEF AllowanceExplained, OfEvm, UsedUp
  <2> QED
    BY DEF AllowanceInv, CallInv, Granted, Covered
<1> QED
  BY <1>1, <1>2, <1>3, PTL DEF Spec

-----------------------------------------------------------------------------
(* What the wallet's methods make of a wallet.                             *)

AppNotes == [owner : Keys, value : Nat, blinding : Blindings, spent : BOOLEAN,
             pending : BOOLEAN]

\* v is w with the notes at P locked, those of the commitments M marked spent, and
\* perhaps with new notes.
Evolves(w, v, P, M) ==
    /\ v \in Wallets /\ v.key = w.key
    /\ \A i \in DOMAIN w.notes :
         i \in DOMAIN v.notes /\ Commitment(v.notes[i]) = Commitment(w.notes[i])
    /\ \A i \in DOMAIN v.notes : v.notes[i].spent =>
         \/ i \in DOMAIN w.notes /\ w.notes[i].spent
         \/ Commitment(v.notes[i]) \in M
    /\ \A i \in DOMAIN v.notes : v.notes[i].pending =>
         \/ i \in P
         \/ /\ i \in DOMAIN w.notes /\ w.notes[i].pending
            /\ Commitment(v.notes[i]) \notin M

LEMMA WalletFields ==
    ASSUME NEW w \in Wallets
    PROVE  /\ w.key \in Keys /\ w.notes \in Seq(AppNotes) /\ w.nextBlinding \in Nat
           /\ DOMAIN w.notes = 1 .. Len(w.notes) /\ Len(w.notes) \in Nat
           /\ \A i \in DOMAIN w.notes : w.notes[i] \in AppNotes
<1>1. w.key \in Keys /\ w.notes \in Seq(AppNotes) /\ w.nextBlinding \in Nat
  BY DEF Wallets, AppNotes
<1> QED
  BY <1>1

LEMMA NoteCommitted ==
    ASSUME NEW n \in AppNotes
    PROVE  Commitment(n) \in NoteCommitments
  BY DEF AppNotes, Commitment, NoteCommitments

LEMMA NewWalletTyped ==
    ASSUME NEW key \in Keys
    PROVE  /\ NewWallet(key) \in Wallets /\ NewWallet(key).key = key
           /\ NewWallet(key).notes = <<>> /\ NewWallet(key).nextBlinding = 0
<1>1. <<>> \in Seq(AppNotes) /\ -1 \in Int /\ 0 \in Nat
  OBVIOUS
<1> QED
  BY <1>1 DEF NewWallet, Wallets, AppNotes

LEMMA OwnNoteTyped ==
    ASSUME NEW w \in Wallets, NEW value \in Nat, NEW blinding \in Blindings
    PROVE  LET n == OwnNote(w, value, blinding)
           IN  n \in AppNotes /\ ~n.spent /\ ~n.pending
  BY WalletFields DEF OwnNote, AppNotes

LEMMA BlindingTyped ==
    ASSUME NEW w \in Wallets
    PROVE  Blinding(w) \in Blindings
  BY WalletFields DEF Blinding, Blindings

\* A new sequence of notes, the rest as it was.
LEMMA NotesReplaced ==
    ASSUME NEW w \in Wallets, NEW f \in Seq(AppNotes), NEW v, v = [w EXCEPT !.notes = f]
    PROVE  v \in Wallets /\ v.key = w.key /\ v.notes = f /\ v.nextBlinding = w.nextBlinding
  BY DEF Wallets, AppNotes

LEMMA SameEvolves ==
    ASSUME NEW w \in Wallets
    PROVE  Evolves(w, w, {}, {})
  BY DEF Evolves

LEMMA TakenEvolves ==
    ASSUME NEW w \in Wallets
    PROVE  /\ Evolves(w, BlindingTaken(w), {}, {})
           /\ BlindingTaken(w).nextBlinding = w.nextBlinding + 1
<1> DEFINE v == BlindingTaken(w)
<1>1. /\ v \in Wallets /\ v.key = w.key /\ v.notes = w.notes
      /\ v.nextBlinding = w.nextBlinding + 1
  BY SMTT(20) DEF BlindingTaken, Wallets
<1> HIDE DEF v
<1> QED
  BY <1>1 DEF Evolves, v

LEMMA EvolvesThen ==
    ASSUME NEW u, NEW v, NEW w, NEW P, Evolves(u, v, P, {}), Evolves(v, w, {}, {})
    PROVE  Evolves(u, w, P, {})
  BY DEF Evolves

LEMMA LockEvolves ==
    ASSUME NEW w \in Wallets, NEW s
    PROVE  /\ Evolves(w, Lock(w, s), Positions(s), {})
           /\ Lock(w, s).nextBlinding = w.nextBlinding
<1> DEFINE f == [i \in DOMAIN w.notes |->
                   IF i \in Positions(s) THEN [w.notes[i] EXCEPT !.pending = TRUE]
                   ELSE w.notes[i]]
           v == Lock(w, s)
<1>1. ASSUME NEW i \in DOMAIN w.notes
      PROVE  /\ f[i] \in AppNotes /\ Commitment(f[i]) = Commitment(w.notes[i])
             /\ f[i].spent = w.notes[i].spent
             /\ f[i].pending => w.notes[i].pending \/ i \in Positions(s)
  <2>1. w.notes[i] \in AppNotes
    BY WalletFields
  <2>2. CASE i \in Positions(s)
    <3> DEFINE n == w.notes[i]
    <3>1. f[i] = [n EXCEPT !.pending = TRUE] /\ n \in AppNotes
      BY <2>1, <2>2
    <3> HIDE DEF n, f
    <3>2. f[i] \in AppNotes /\ Commitment(f[i]) = Commitment(n) /\ f[i].spent = n.spent
      BY <3>1 DEF AppNotes, Commitment
    <3> QED
      BY <2>2, <3>2 DEF n
  <2>3. CASE i \notin Positions(s)
    BY <2>1, <2>3
  <2> QED
    BY <2>2, <2>3
<1>2. v = [w EXCEPT !.notes = f]
  BY DEF Lock
<1>3. DOMAIN f = DOMAIN w.notes /\ f \in Seq(AppNotes)
  <2>1. /\ f \in [1 .. Len(w.notes) -> AppNotes] /\ Len(w.notes) \in Nat
        /\ DOMAIN w.notes = 1 .. Len(w.notes)
    BY <1>1, WalletFields
  <2> HIDE DEF f
  <2> QED
    BY <2>1
<1> HIDE DEF f, v
<1>4. v \in Wallets /\ v.key = w.key /\ v.notes = f /\ v.nextBlinding = w.nextBlinding
  BY <1>2, <1>3, NotesReplaced
<1>5. Evolves(w, v, Positions(s), {})
  BY <1>1, <1>3, <1>4 DEF Evolves
<1> QED
  BY <1>4, <1>5 DEF v

LEMMA MarkEvolves ==
    ASSUME NEW w \in Wallets, NEW M
    PROVE  /\ Evolves(w, MarkSpent(w, M), {}, M)
           /\ MarkSpent(w, M).nextBlinding = w.nextBlinding
<1> DEFINE f == [i \in DOMAIN w.notes |->
                   IF Commitment(w.notes[i]) \in M
                   THEN [w.notes[i] EXCEPT !.spent = TRUE, !.pending = FALSE]
                   ELSE w.notes[i]]
           v == MarkSpent(w, M)
<1>1. ASSUME NEW i \in DOMAIN w.notes
      PROVE  /\ f[i] \in AppNotes /\ Commitment(f[i]) = Commitment(w.notes[i])
             /\ f[i].spent => w.notes[i].spent \/ Commitment(w.notes[i]) \in M
             /\ f[i].pending => w.notes[i].pending /\ Commitment(w.notes[i]) \notin M
  <2>1. w.notes[i] \in AppNotes
    BY WalletFields
  <2>2. CASE Commitment(w.notes[i]) \in M
    <3> DEFINE n == w.notes[i]
    <3>1. f[i] = [n EXCEPT !.spent = TRUE, !.pending = FALSE] /\ n \in AppNotes
      BY <2>1, <2>2
    <3> HIDE DEF n, f
    <3>2. f[i] \in AppNotes /\ Commitment(f[i]) = Commitment(n) /\ ~f[i].pending
      BY <3>1 DEF AppNotes, Commitment
    <3> QED
      BY <2>2, <3>2 DEF n
  <2>3. CASE Commitment(w.notes[i]) \notin M
    BY <2>1, <2>3
  <2> QED
    BY <2>2, <2>3
<1>2. v = [w EXCEPT !.notes = f]
  BY DEF MarkSpent
<1>3. DOMAIN f = DOMAIN w.notes /\ f \in Seq(AppNotes)
  <2>1. /\ f \in [1 .. Len(w.notes) -> AppNotes] /\ Len(w.notes) \in Nat
        /\ DOMAIN w.notes = 1 .. Len(w.notes)
    BY <1>1, WalletFields
  <2> HIDE DEF f
  <2> QED
    BY <2>1
<1> HIDE DEF f, v
<1>4. v \in Wallets /\ v.key = w.key /\ v.notes = f /\ v.nextBlinding = w.nextBlinding
  BY <1>2, <1>3, NotesReplaced
<1>5. Evolves(w, v, {}, M)
  BY <1>1, <1>3, <1>4 DEF Evolves
<1> QED
  BY <1>4, <1>5 DEF v

LEMMA NoteEvolves ==
    ASSUME NEW w \in Wallets, NEW n \in AppNotes, ~n.spent, ~n.pending
    PROVE  /\ Evolves(w, WithNote(w, n), {}, {})
           /\ WithNote(w, n).nextBlinding = w.nextBlinding
<1> DEFINE f == Append(w.notes, n)
           v == WithNote(w, n)
<1>1. /\ w.notes \in Seq(AppNotes) /\ DOMAIN w.notes = 1 .. Len(w.notes)
      /\ Len(w.notes) \in Nat
  BY WalletFields
<1>2. /\ f \in Seq(AppNotes) /\ Len(f) = Len(w.notes) + 1
      /\ \A i \in 1 .. Len(w.notes) : f[i] = w.notes[i]
      /\ f[Len(w.notes) + 1] = n
  BY <1>1, AppendProperties
<1>3. v = [w EXCEPT !.notes = f]
  BY DEF WithNote
<1> HIDE DEF f, v
<1>4. v \in Wallets /\ v.key = w.key /\ v.notes = f /\ v.nextBlinding = w.nextBlinding
  BY <1>2, <1>3, NotesReplaced
<1>5. DOMAIN f = 1 .. Len(w.notes) + 1
  BY <1>2
<1>6. \A i \in DOMAIN f : IF i \in DOMAIN w.notes THEN f[i] = w.notes[i] ELSE f[i] = n
  BY <1>1, <1>2, <1>5
<1>7. DOMAIN w.notes \subseteq DOMAIN f
  BY <1>1, <1>5
<1>8. Evolves(w, v, {}, {})
  BY <1>4, <1>6, <1>7 DEF Evolves
<1> QED
  BY <1>4, <1>8 DEF v

\* What selectNotes() returns: one or two unspent notes that nobody has locked.
LEMMA Selected ==
    ASSUME NEW w \in Wallets, NEW a, NEW s \in Selections(w, a)
    PROVE  /\ s \in Seq(Nat) /\ Len(s) \in {1, 2}
           /\ \A k \in DOMAIN s : s[k] \in DOMAIN w.notes
           /\ s # <<>>
<1>1. \/ \E i \in Unspent(w) : s = <<i>>
      \/ \E i, j \in Unspent(w) : s = <<i, j>>
  BY DEF Selections
<1>2. Unspent(w) \subseteq DOMAIN w.notes /\ DOMAIN w.notes \subseteq Nat
  BY WalletFields DEF Unspent
<1>3. CASE \E i \in Unspent(w) : s = <<i>>
  BY <1>2, <1>3
<1>4. CASE \E i, j \in Unspent(w) : s = <<i, j>>
  <2>1. PICK i \in Unspent(w), j \in Unspent(w) : s = <<i, j>>
    BY <1>4
  <2>2. i \in Nat /\ j \in Nat /\ i \in DOMAIN w.notes /\ j \in DOMAIN w.notes
    BY <1>2
  <2>3. s \in Seq(Nat) /\ Len(s) = 2 /\ s[1] = i /\ s[2] = j
    BY <2>1, <2>2
  <2>4. \A k \in DOMAIN s : k = 1 \/ k = 2
    BY <2>3
  <2>5. \A k \in DOMAIN s : s[k] \in DOMAIN w.notes
    BY <2>2, <2>3, <2>4
  <2> QED
    BY <2>3, <2>5
<1> QED
  BY <1>1, <1>3, <1>4

LEMMA ChangeIsInt ==
    ASSUME NEW w \in Wallets, NEW s \in Seq(Nat), Len(s) \in {1, 2}, NEW a \in Nat,
           \A k \in DOMAIN s : s[k] \in DOMAIN w.notes
    PROVE  Change(w, s, a) \in Int
<1>1. 1 \in DOMAIN s /\ (Len(s) = 2 => 2 \in DOMAIN s)
  OBVIOUS
<1>2. w.notes[s[1]].value \in Nat /\ (Len(s) = 2 => w.notes[s[2]].value \in Nat)
  <2>1. \A i \in DOMAIN w.notes : w.notes[i].value \in Nat
    BY WalletFields DEF AppNotes
  <2> QED
    BY <1>1, <2>1
<1> QED
  BY <1>2 DEF Change

-----------------------------------------------------------------------------
(* Types, and what a call holds of its wallet.                             *)

\* The hook has its wallet: what reset and reload leave has no key.
Made(id) == wallets[id].key # None

\* A call works on a wallet that is there; of the notes it spends it has the
\* positions and the commitments.
Holds(c) ==
    /\ walletOf[c][1] <= page
    /\ kind[c] # "none" => walletOf[c] \notin loading
    /\ Running(c) => Made(walletOf[c])
    /\ kind[c] \notin Spends => inputs[c] = <<>>
    /\ DOMAIN spends[c] = DOMAIN inputs[c]
    /\ kind[c] \in Spends /\ (Running(c) \/ c \in sent) => Len(inputs[c]) \in {1, 2}
    /\ Running(c) /\ kind[c] \in Deposits /\ todo[c][1] # "stealth" => outputs[c] # <<>>
    /\ Made(walletOf[c]) => \A k \in DOMAIN inputs[c] :
         /\ inputs[c][k] \in DOMAIN Wallet(c).notes
         /\ Commitment(Wallet(c).notes[inputs[c][k]]) = spends[c][k]

HoldInv ==
    /\ TypeOK /\ CallInv /\ PageInv
    /\ \A h \in Hooks : <<page, h>> \in loading \/ Made(<<page, h>>)
    /\ \A c \in Calls : Holds(c)

\* One wallet changes, as its methods change it.
WalletStep(id, P, M) ==
    /\ id \in Ids /\ wallets' \in [Ids -> Wallets]
    /\ Evolves(wallets[id], wallets'[id], P, M)
    /\ \A j \in Ids \ {id} : wallets'[j] = wallets[j]

LEMMA StepOfWallet ==
    ASSUME TypeOK, NEW id \in Ids, NEW v, NEW P, NEW M, Evolves(wallets[id], v, P, M),
           wallets' = [wallets EXCEPT ![id] = v]
    PROVE  WalletStep(id, P, M) /\ wallets'[id] = v
  BY DEF TypeOK, WalletStep, Evolves

LEMMA StepOfNone ==
    ASSUME TypeOK, NEW id \in Ids, UNCHANGED wallets
    PROVE  WalletStep(id, {}, {})
  BY SameEvolves DEF TypeOK, WalletStep

LEMMA WalletsFollow ==
    ASSUME TypeOK, NEW id, NEW P, NEW M, WalletStep(id, P, M), NEW j \in Ids
    PROVE  /\ wallets'[j] \in Wallets /\ wallets'[j].key = wallets[j].key
           /\ \A i \in DOMAIN wallets[j].notes :
                /\ i \in DOMAIN wallets'[j].notes
                /\ Commitment(wallets'[j].notes[i]) = Commitment(wallets[j].notes[i])
  BY DEF WalletStep, Evolves

\* A call to which nothing happens, or an await at most.
LEMMA StillHolds ==
    ASSUME HoldInv, NEW c \in Calls, NEW id, NEW P, NEW M, WalletStep(id, P, M),
           UNCHANGED <<page, loading>>,
           kind'[c] = kind[c], walletOf'[c] = walletOf[c], inputs'[c] = inputs[c],
           spends'[c] = spends[c], Running(c)' => Running(c),
           c \in sent' => c \in sent \/ Running(c),
           Running(c)' /\ kind[c] \in Deposits /\ todo'[c][1] # "stealth" => outputs'[c] # <<>>
    PROVE  Holds(c)'
<1>1. walletOf[c] \in Ids /\ Holds(c)
  BY DEF HoldInv, TypeOK
<1>2. /\ wallets'[walletOf[c]].key = Wallet(c).key
      /\ \A i \in DOMAIN Wallet(c).notes :
           /\ i \in DOMAIN wallets'[walletOf[c]].notes
           /\ Commitment(wallets'[walletOf[c]].notes[i]) = Commitment(Wallet(c).notes[i])
  BY <1>1, WalletsFollow DEF HoldInv, Wallet
<1>3. Made(walletOf[c])' <=> Made(walletOf[c])
  BY <1>2 DEF Made, Wallet
<1>4. \A i \in DOMAIN Wallet(c).notes :
           /\ i \in DOMAIN Wallet(c)'.notes
           /\ Commitment(Wallet(c)'.notes[i]) = Commitment(Wallet(c).notes[i])
  BY <1>2 DEF Wallet
<1> QED
  BY <1>1, <1>3, <1>4 DEF Holds

\* A blinding at most is taken from wallet id, for an output of call c.
OneMore(c, id) ==
    /\ \A d \in Calls \ {c} : outputs'[d] = outputs[d]
    /\ wallets'[id].nextBlinding >= wallets[id].nextBlinding
    /\ \E n : \A k \in DOMAIN outputs'[c] :
         IF k = n
         THEN /\ outputs'[c][k][3] = Blinding(wallets[id])
              /\ wallets'[id].nextBlinding = wallets[id].nextBlinding + 1
         ELSE k \in DOMAIN outputs[c] /\ outputs'[c][k] = outputs[c][k]

\* The confirmation or the receipt has come.
Settles(c) == result'[c] = "done" /\ todo[c][1] \in {"confirm", "receipt"}

\* The awaits' effects.
Effect(c) ==
    /\ UNCHANGED <<pageVars, kind, walletOf, total, inputs, spends, outcome, leaves,
                   nullifiers, locked, allowance>>
    /\ approval' \in [Calls -> {"none", "sent", "done"}]
    /\ outputs' \in [Calls -> Seq(NoteCommitments)]
    /\ outputs[c] # <<>> => outputs'[c] # <<>>
    /\ todo[c][1] = "stealth" /\ Running(c)' => outputs'[c] # <<>>
    /\ OneMore(c, walletOf[c])
    /\ WalletStep(walletOf[c], {}, IF Settles(c) THEN Shown(c) ELSE {})
    /\ todo[c][1] \in {"confirm", "receipt"} => result'[c] \in {"done", "error"}
    /\ Settles(c) => outcome[c] # "none" /\ (todo[c][1] = "receipt" => outcome[c] = "ok")

LEMMA NoneMore ==
    ASSUME TypeOK, NEW c \in Calls, NEW id \in Ids, UNCHANGED outputs,
           wallets'[id].nextBlinding = wallets[id].nextBlinding
    PROVE  OneMore(c, id)
<1>1. outputs[c] \in Seq(NoteCommitments) /\ wallets[id] \in Wallets
  BY DEF TypeOK
<1>2. wallets[id].nextBlinding \in Nat
  BY <1>1, WalletFields
<1>3. \A k \in DOMAIN outputs[c] : k # 0
  BY <1>1
<1> QED
  BY <1>2, <1>3 DEF OneMore

LEMMA TakeBlindingTyped ==
    ASSUME TypeOK, NEW c \in Calls, NEW id \in Ids, NEW a \in Nat, TakeBlinding(c, id, a)
    PROVE  /\ outputs' \in [Calls -> Seq(NoteCommitments)] /\ outputs'[c] # <<>>
           /\ OneMore(c, id) /\ WalletStep(id, {}, {})
<1> DEFINE w == wallets[id]
           o == <<w.key, a, Blinding(w)>>
<1>1. w \in Wallets
  BY DEF TypeOK
<1>2. o \in NoteCommitments /\ o[3] = Blinding(w) /\ w.nextBlinding \in Nat
  BY <1>1, WalletFields, BlindingTyped DEF NoteCommitments
<1>3. outputs' = [outputs EXCEPT ![c] = <<o>>] /\ wallets' = [wallets EXCEPT ![id] = BlindingTaken(w)]
  BY DEF TakeBlinding, TypeOK
<1> HIDE DEF o
<1>4. <<o>> \in Seq(NoteCommitments) /\ <<o>> # <<>>
  BY <1>2
<1>5. WalletStep(id, {}, {}) /\ wallets'[id].nextBlinding = w.nextBlinding + 1
  BY <1>1, <1>3, TakenEvolves, StepOfWallet
<1>6. outputs'[c] = <<o>> /\ \A d \in Calls \ {c} : outputs'[d] = outputs[d]
  BY <1>3 DEF TypeOK
<1>7. OneMore(c, id)
  <2>1. \A k \in DOMAIN outputs'[c] :
          IF k = 1
          THEN /\ outputs'[c][k][3] = Blinding(wallets[id])
               /\ wallets'[id].nextBlinding = wallets[id].nextBlinding + 1
          ELSE k \in DOMAIN outputs[c] /\ outputs'[c][k] = outputs[c][k]
    BY <1>2, <1>5, <1>6
  <2> QED
    BY <1>2, <1>5, <1>6, <2>1 DEF OneMore
<1> QED
  BY <1>3, <1>4, <1>5, <1>7 DEF TypeOK

LEMMA QuietEffect ==
    ASSUME HoldInv, NEW c \in Calls, UNCHANGED <<pageVars, wallets, argVars, outcome, leaves,
           nullifiers, locked, allowance>>,
           approval' \in [Calls -> {"none", "sent", "done"}],
           todo[c][1] # "stealth" \/ ~Running(c)',
           \/ todo[c][1] \notin {"confirm", "receipt"}
           \/ result'[c] = "error"
    PROVE  Effect(c)
<1>1. walletOf[c] \in Ids /\ TypeOK
  BY DEF HoldInv, TypeOK
<1>2. WalletStep(walletOf[c], {}, {}) /\ OneMore(c, walletOf[c])
  BY <1>1, StepOfNone, NoneMore DEF argVars
<1> QED
  BY <1>1, <1>2 DEF Effect, argVars, TypeOK, Settles

LEMMA AwaitEffects ==
    ASSUME HoldInv, NEW c \in Calls, Proceed(c)
    PROVE  Effect(c)
<1>1. /\ TypeOK /\ CallInv /\ Holds(c) /\ walletOf[c] \in Ids /\ total[c] \in Nat
      /\ Wallet(c) \in Wallets /\ outputs[c] \in Seq(NoteCommitments)
      /\ approval \in [Calls -> {"none", "sent", "done"}]
      /\ Wallet(c).nextBlinding \in Nat
  BY WalletFields DEF HoldInv, TypeOK, Wallet
<1>2. Running(c)
  BY DEF Proceed, Throws, StealthDerived, NoteMade, ChangePrepared, Passes, AllowanceRead,
         Approved, Signed, Confirmed, Receipt, Pass
<1>3. CASE Throws(c)
  <2>1. todo'[c] = <<>> /\ result'[c] = "error"
    BY <1>1, <1>3 DEF Throws, TypeOK
  <2> QED
    BY <1>1, <1>3, <2>1, QuietEffect DEF Throws, Running
<1>4. CASE StealthDerived(c)
  <2>1. /\ TakeBlinding(c, walletOf[c], total[c]) /\ todo[c][1] = "stealth"
        /\ UNCHANGED <<pageVars, kind, walletOf, total, inputs, spends, chainVars>>
    BY <1>4 DEF StealthDerived, Pass
  <2>2. /\ outputs' \in [Calls -> Seq(NoteCommitments)] /\ outputs'[c] # <<>>
        /\ OneMore(c, walletOf[c]) /\ WalletStep(walletOf[c], {}, {})
    BY <1>1, <2>1, TakeBlindingTyped
  <2> QED
    BY <1>1, <2>1, <2>2 DEF Effect, chainVars, Settles
<1>5. CASE NoteMade(c)
  <2>1. todo[c][1] = "note" /\ kind[c] \in Deposits
    BY <1>1, <1>2, <1>5, WhereItStands DEF NoteMade, Pass, Fits
  <2>2. outputs[c][1][3] \in Blindings
    <3>1. outputs[c] # <<>>
      BY <1>1, <1>2, <2>1 DEF Holds
    <3>2. outputs[c][1] \in NoteCommitments
      BY <1>1, <3>1
    <3> QED
      BY <3>2 DEF NoteCommitments
  <2> DEFINE n == OwnNote(Wallet(c), total[c], outputs[c][1][3])
  <2>3. n \in AppNotes /\ ~n.spent /\ ~n.pending
    BY <1>1, <2>2, OwnNoteTyped
  <2>4. /\ wallets' = [wallets EXCEPT ![walletOf[c]] = WithNote(Wallet(c), n)]
        /\ UNCHANGED <<pageVars, argVars, chainVars>>
    BY <1>1, <1>5 DEF NoteMade, Wallet, TypeOK
  <2> HIDE DEF n
  <2>5. /\ WalletStep(walletOf[c], {}, {})
        /\ wallets'[walletOf[c]].nextBlinding = wallets[walletOf[c]].nextBlinding
    <3> DEFINE v == WithNote(Wallet(c), n)
    <3>1. Evolves(Wallet(c), v, {}, {}) /\ v.nextBlinding = Wallet(c).nextBlinding
      BY <1>1, <2>3, NoteEvolves
    <3>2. wallets' = [wallets EXCEPT ![walletOf[c]] = v]
      BY <2>4
    <3> HIDE DEF v
    <3> QED
      BY <1>1, <3>1, <3>2, StepOfWallet DEF Wallet
  <2>6. OneMore(c, walletOf[c])
    BY <1>1, <2>4, <2>5, NoneMore DEF argVars
  <2> QED
    BY <1>1, <2>1, <2>4, <2>5, <2>6 DEF Effect, argVars, chainVars, TypeOK, Settles
<1>6. CASE ChangePrepared(c)
  <2> DEFINE change == Change(Wallet(c), inputs[c], total[c])
             o == <<Wallet(c).key, change, Blinding(Wallet(c))>>
  <2>1. todo[c][1] = "blinding" /\ kind[c] = "transfer"
    BY <1>1, <1>2, <1>6, WhereItStands DEF ChangePrepared, Pass, Fits
  <2>2. change \in Int
    <3>1. /\ Len(inputs[c]) \in {1, 2} /\ inputs[c] \in Seq(Nat)
          /\ \A k \in DOMAIN inputs[c] : inputs[c][k] \in DOMAIN Wallet(c).notes
      BY <1>1, <1>2, <2>1 DEF Holds, Spends, TypeOK
    <3> QED
      BY <1>1, <3>1, ChangeIsInt
  <2>3. UNCHANGED <<pageVars, kind, walletOf, total, inputs, spends, chainVars>>
    BY <1>6 DEF ChangePrepared
  <2>4. CASE change > 0
    <3>1. o \in NoteCommitments /\ o[3] = Blinding(Wallet(c))
      BY <1>1, <2>2, <2>4, WalletFields, BlindingTyped DEF NoteCommitments
    <3>2. /\ outputs' = [outputs EXCEPT ![c] = Append(outputs[c], o)]
          /\ wallets' = [wallets EXCEPT ![walletOf[c]] = BlindingTaken(Wallet(c))]
      BY <1>1, <1>6, <2>4 DEF ChangePrepared, Wallet, TypeOK
    <3> HIDE DEF o, change
    <3> DEFINE f == Append(outputs[c], o)
    <3>3. /\ f \in Seq(NoteCommitments) /\ f # <<>> /\ Len(f) = Len(outputs[c]) + 1
          /\ \A k \in 1 .. Len(outputs[c]) : f[k] = outputs[c][k]
          /\ f[Len(outputs[c]) + 1] = o
      BY <1>1, <3>1, AppendProperties
    <3>4. /\ WalletStep(walletOf[c], {}, {})
          /\ wallets'[walletOf[c]].nextBlinding = wallets[walletOf[c]].nextBlinding + 1
      BY <1>1, <3>2, TakenEvolves, StepOfWallet DEF Wallet
    <3>5. outputs'[c] = f /\ \A d \in Calls \ {c} : outputs'[d] = outputs[d]
      BY <1>1, <3>2 DEF TypeOK
    <3> HIDE DEF f
    <3>6. OneMore(c, walletOf[c])
      <4> DEFINE n == Len(outputs[c]) + 1
      <4>1. \A k \in DOMAIN f :
              IF k = n THEN f[k][3] = Blinding(wallets[walletOf[c]])
              ELSE k \in DOMAIN outputs[c] /\ f[k] = outputs[c][k]
        BY <1>1, <3>1, <3>3 DEF Wallet
      <4>2. wallets'[walletOf[c]].nextBlinding >= wallets[walletOf[c]].nextBlinding
        BY <1>1, <3>4 DEF Wallet
      <4> HIDE DEF n
      <4> QED
        BY <3>4, <3>5, <4>1, <4>2 DEF OneMore
    <3>7. outputs' \in [Calls -> Seq(NoteCommitments)] /\ outputs'[c] # <<>>
      BY <1>1, <3>2, <3>3 DEF TypeOK, f
    <3> QED
      BY <1>1, <2>1, <2>3, <3>4, <3>6, <3>7 DEF Effect, chainVars, Settles
  <2>5. CASE ~(change > 0)
    <3>1. UNCHANGED <<outputs, wallets>>
      BY <1>6, <2>5 DEF ChangePrepared
    <3> QED
      BY <1>1, <2>1, <2>3, <3>1, QuietEffect DEF argVars, chainVars
  <2> QED
    BY <2>4, <2>5
<1>7. CASE Passes(c) \/ Signed(c) \/ AllowanceRead(c) \/ Approved(c)
  <2>1. todo[c][1] \notin {"stealth", "confirm", "receipt"}
    BY <1>7 DEF Passes, Signed, AllowanceRead, Approved, Pass
  <2>2. /\ UNCHANGED <<pageVars, wallets, argVars, outcome, leaves, nullifiers, locked,
                       allowance>>
        /\ \/ approval' = approval
           \/ approval' = [approval EXCEPT ![c] = "sent"]
    BY <1>7 DEF Passes, Signed, AllowanceRead, Approved, chainVars
  <2>3. approval' \in [Calls -> {"none", "sent", "done"}]
    BY <1>1, <2>2 DEF TypeOK
  <2> QED
    BY <1>1, <2>1, <2>2, <2>3, QuietEffect
<1>8. CASE Confirmed(c) \/ Receipt(c)
  <2>1. /\ todo[c][1] \in {"confirm", "receipt"} /\ outcome[c] # "none"
        /\ todo[c][1] = "receipt" => outcome[c] = "ok"
        /\ wallets' = Marked(c) /\ UNCHANGED <<pageVars, argVars, chainVars>>
    BY <1>8 DEF Confirmed, Receipt, Pass
  <2>2. result'[c] = "done"
    <3>1. Tail(todo[c]) = <<>>
      BY <1>1, <1>2, <2>1, WhereItStands DEF Last
    <3> QED
      BY <1>1, <1>8, <3>1 DEF Confirmed, Receipt, Pass, TypeOK
  <2>3. wallets' = [wallets EXCEPT ![walletOf[c]] = MarkSpent(Wallet(c), Shown(c))]
    BY <1>1, <2>1 DEF Marked, Shown, Wallet, TypeOK
  <2>4. /\ WalletStep(walletOf[c], {}, Shown(c))
        /\ wallets'[walletOf[c]].nextBlinding = wallets[walletOf[c]].nextBlinding
    <3> DEFINE v == MarkSpent(Wallet(c), Shown(c))
    <3>1. Evolves(Wallet(c), v, {}, Shown(c)) /\ v.nextBlinding = Wallet(c).nextBlinding
      BY <1>1, MarkEvolves
    <3>2. wallets' = [wallets EXCEPT ![walletOf[c]] = v]
      BY <2>3
    <3> HIDE DEF v
    <3> QED
      BY <1>1, <3>1, <3>2, StepOfWallet DEF Wallet
  <2>5. OneMore(c, walletOf[c])
    BY <1>1, <2>1, <2>4, NoneMore DEF argVars
  <2> QED
    BY <1>1, <2>1, <2>2, <2>4, <2>5 DEF Effect, argVars, chainVars, TypeOK, Settles
<1> QED
  BY <1>3, <1>4, <1>5, <1>6, <1>7, <1>8 DEF Proceed

Statuses == Idle \cup {"generating", "sending", "confirming"}

LEMMA StatusTyped ==
    ASSUME NEW a \in Awaits
    PROVE  StatusAt(a) \in Statuses
<1>1. CASE a \in {"note", "stealth", "blinding", "prepare", "prove", "read"}
  <2>1. StatusAt(a) = "generating"
    BY <1>1 DEF StatusAt
  <2> QED
    BY <2>1 DEF Statuses
<1>2. CASE a \in {"sign", "allowance", "approve", "call", "receipt"}
  <2>1. StatusAt(a) = "sending"
    BY <1>2 DEF StatusAt
  <2> QED
    BY <2>1 DEF Statuses
<1>3. CASE a = "confirm"
  <2>1. StatusAt(a) = "confirming"
    BY <1>3 DEF StatusAt
  <2> QED
    BY <2>1 DEF Statuses
<1> QED
  BY <1>1, <1>2, <1>3 DEF Awaits

\* Call c has been made on the wallet of this page's hook h, and perhaps is over.
Starts(c, h) ==
    /\ kind[c] = "none" /\ <<page, h>> \notin loading
    /\ UNCHANGED <<pageVars, chainVars>>
    /\ status' \in [Hooks -> Statuses]
    /\ kind' \in [Calls -> Functions \cup {"none"}]
    /\ \A d \in Calls \ {c} : kind'[d] = kind[d]
    /\ walletOf' = [walletOf EXCEPT ![c] = <<page, h>>]
    /\ \A d \in Calls \ {c} : todo'[d] = todo[d] /\ result'[d] = result[d]
    /\ total' \in [Calls -> Nat] /\ inputs' \in [Calls -> Seq(Nat)]
    /\ spends' \in [Calls -> Seq(NoteCommitments)]
    /\ outputs' \in [Calls -> Seq(NoteCommitments)]
    /\ \A d \in Calls \ {c} : inputs'[d] = inputs[d] /\ spends'[d] = spends[d]
    /\ WalletStep(<<page, h>>, Positions(inputs'[c]), {})
    /\ OneMore(c, <<page, h>>)
    /\ inputs'[c] # <<>> => Running(c)'
    /\ Holds(c)'

\* What the calls have in common.
Called(c, h, k) ==
    /\ kind[c] = "none" /\ <<page, h>> \notin loading
    /\ UNCHANGED <<pageVars, chainVars>>
    /\ status' \in [Hooks -> Statuses]
    /\ kind' = [kind EXCEPT ![c] = k] /\ walletOf' = [walletOf EXCEPT ![c] = <<page, h>>]
    /\ \A d \in Calls \ {c} : todo'[d] = todo[d] /\ result'[d] = result[d]
    /\ Running(c)' => Begin(c, h, k)
    /\ Begin(c, h, k) => Running(c)' /\ (k = "stealthSend" => todo'[c][1] = "stealth")

LEMMA CallsAreCalled ==
    ASSUME HoldInv, NEW c \in Calls, NEW h \in Hooks, NEW k \in Functions,
           Begin(c, h, k) \/ Refused(c, h, k)
    PROVE  Called(c, h, k)
<1>1. TypeOK /\ CallInv
  BY DEF HoldInv
<1>2. kind[c] = "none" /\ ~Running(c)
  BY <1>1 DEF Begin, Refused, CallInv, Underway, Functions
<1>3. CASE Begin(c, h, k)
  <2> DEFINE P == Program(h, k)
  <2>1. Orderly(P, h, k)
    BY <1>3, ProgramsOrderly DEF Begin
  <2>2. todo' = [todo EXCEPT ![c] = P] /\ status' = [status EXCEPT ![h] = StatusAt(P[1])]
    BY <1>3 DEF Begin
  <2> HIDE DEF P
  <2>3. P \in Seq(Awaits) /\ P # <<>> /\ P[1] \in Awaits
    BY <2>1 DEF Orderly
  <2>4. status' \in [Hooks -> Statuses]
    BY <1>1, <2>2, <2>3, StatusTyped DEF TypeOK, Statuses
  <2>5. todo'[c] = P /\ \A d \in Calls \ {c} : todo'[d] = todo[d]
    BY <1>1, <2>2 DEF TypeOK
  <2> QED
    BY <1>1, <1>2, <1>3, <2>1, <2>3, <2>4, <2>5 DEF Begin, Called, Running, Orderly
<1>4. CASE Refused(c, h, k)
  <2>1. status' \in [Hooks -> Statuses]
    BY <1>1, <1>4 DEF Refused, TypeOK, Statuses, Idle
  <2>2. ~Running(c)' /\ ~Begin(c, h, k)
    <3>1. todo' = todo /\ result'[c] = "error" /\ result[c] = "none"
      BY <1>1, <1>2, <1>4 DEF Refused, TypeOK, CallInv
    <3> QED
      BY <1>2, <3>1 DEF Running, Begin
  <2> QED
    BY <1>1, <1>2, <1>4, <2>1, <2>2 DEF Refused, Called, TypeOK
<1> QED
  BY <1>3, <1>4

\* What is known before the call.
LEMMA Uncalled ==
    ASSUME HoldInv, NEW c \in Calls, NEW h \in Hooks, kind[c] = "none",
           <<page, h>> \notin loading
    PROVE  /\ TypeOK /\ <<page, h>> \in Ids /\ Made(<<page, h>>)
           /\ wallets[<<page, h>>] \in Wallets /\ page \in Nat
           /\ inputs[c] = <<>> /\ DOMAIN spends[c] = {} /\ c \notin sent
<1>1. TypeOK /\ CallInv /\ Holds(c)
  BY DEF HoldInv
<1>2. <<page, h>> \in Ids /\ page \in Nat
  BY <1>1, AppAssumption DEF TypeOK, Ids
<1>3. Made(<<page, h>>)
  BY DEF HoldInv
<1>4. inputs[c] = <<>>
  BY <1>1 DEF Holds, Spends
<1>5. DOMAIN spends[c] = {}
  BY <1>1, <1>4 DEF Holds
<1> QED
  BY <1>1, <1>2, <1>3, <1>4, <1>5 DEF TypeOK, CallInv

\* Nothing is selected.
LEMMA QuietStarts ==
    ASSUME HoldInv, NEW c \in Calls, NEW h \in Hooks, NEW k \in Functions, Called(c, h, k),
           total' \in [Calls -> Nat], outputs' \in [Calls -> Seq(NoteCommitments)],
           UNCHANGED <<inputs, spends>>, WalletStep(<<page, h>>, {}, {}),
           OneMore(c, <<page, h>>), Begin(c, h, k) => k \notin Spends,
           Begin(c, h, k) /\ k = "deposit" => outputs'[c] # <<>>
    PROVE  Starts(c, h)
<1>1. kind[c] = "none" /\ <<page, h>> \notin loading
  BY DEF Called
<1>2. /\ TypeOK /\ <<page, h>> \in Ids /\ Made(<<page, h>>)
      /\ wallets[<<page, h>>] \in Wallets /\ page \in Nat
      /\ inputs[c] = <<>> /\ DOMAIN spends[c] = {} /\ c \notin sent
  BY <1>1, Uncalled
<1>3. Positions(inputs'[c]) = {}
  BY <1>2 DEF Positions
<1>4. kind'[c] = k /\ walletOf'[c] = <<page, h>>
  BY <1>2 DEF Called, TypeOK
<1>5. wallets'[<<page, h>>].key = wallets[<<page, h>>].key
  BY <1>2, WalletsFollow
<1>6. Holds(c)'
  <2>1. walletOf[c]'[1] <= page' /\ walletOf[c]' \notin loading'
    <3>1. page' = page /\ loading' = loading
      BY DEF Called, pageVars
    <3>2. <<page, h>>[1] = page /\ page <= page
      BY <1>2
    <3> QED
      BY <1>1, <1>4, <3>1, <3>2
  <2>2. Made(walletOf[c])'
    BY <1>2, <1>4, <1>5 DEF Made
  <2>3. inputs[c]' = <<>> /\ DOMAIN spends[c]' = {}
    BY <1>2
  <2>4. kind'[c] \in Spends => ~Running(c)' /\ c \notin sent'
    BY <1>2, <1>4 DEF Called, chainVars
  <2>5. Running(c)' /\ kind'[c] \in Deposits /\ todo'[c][1] # "stealth" => outputs'[c] # <<>>
    BY <1>4 DEF Called, Deposits
  <2> QED
    BY <2>1, <2>2, <2>3, <2>4, <2>5 DEF Holds
<1> QED
  BY <1>1, <1>2, <1>3, <1>4, <1>6 DEF Called, Starts, TypeOK

\* What locking makes of a wallet, with a blinding taken or not.
LEMMA PrepareEvolves ==
    ASSUME NEW w \in Wallets, NEW s
    PROVE  /\ Evolves(w, BlindingTaken(Lock(w, s)), Positions(s), {})
           /\ BlindingTaken(Lock(w, s)).nextBlinding = w.nextBlinding + 1
           /\ Evolves(w, Lock(w, s), Positions(s), {})
           /\ Lock(w, s).nextBlinding = w.nextBlinding
<1> DEFINE u == Lock(w, s)
           v == BlindingTaken(u)
<1>1. Evolves(w, u, Positions(s), {}) /\ u.nextBlinding = w.nextBlinding
  BY LockEvolves
<1>2. u \in Wallets
  BY <1>1 DEF Evolves
<1> HIDE DEF u
<1>3. Evolves(u, v, {}, {}) /\ v.nextBlinding = u.nextBlinding + 1
  BY <1>2, TakenEvolves
<1> HIDE DEF v
<1>4. Evolves(w, v, Positions(s), {})
  BY <1>1, <1>3, EvolvesThen
<1> QED
  BY <1>1, <1>3, <1>4 DEF u, v

\* The outputs of a transfer or a withdrawal, and what becomes of its wallet.
LEMMA SpendPrepares ==
    ASSUME TypeOK, NEW c \in Calls, NEW h \in Hooks, NEW k \in Spends, NEW a \in Nat,
           <<page, h>> \in Ids, NEW s \in Selections(wallets[<<page, h>>], a),
           Spend(c, h, k, a, s)
    PROVE  /\ outputs' \in [Calls -> Seq(NoteCommitments)]
           /\ WalletStep(<<page, h>>, Positions(s), {})
           /\ OneMore(c, <<page, h>>)
<1> DEFINE id == <<page, h>>
           w == wallets[id]
           change == Change(w, s, a)
           taken == BlindingTaken(Lock(w, s))
<1>1. w \in Wallets /\ w.key \in Keys /\ w.nextBlinding \in Nat /\ Blinding(w) \in Blindings
  <2>1. w \in Wallets
    BY DEF TypeOK
  <2> QED
    BY <2>1, WalletFields, BlindingTyped
<1>2. /\ s \in Seq(Nat) /\ Len(s) \in {1, 2} /\ \A i \in DOMAIN s : s[i] \in DOMAIN w.notes
  BY <1>1, Selected
<1>3. change \in Int
  BY <1>1, <1>2, ChangeIsInt
<1>4. /\ Evolves(w, taken, Positions(s), {}) /\ taken.nextBlinding = w.nextBlinding + 1
      /\ Evolves(w, Lock(w, s), Positions(s), {}) /\ Lock(w, s).nextBlinding = w.nextBlinding
  BY <1>1, PrepareEvolves
<1>5. \/ /\ wallets' = [wallets EXCEPT ![id] = taken]
         /\ \/ outputs' = [outputs EXCEPT ![c] = <<<<Payee, a, Blinding(w)>>>>]
            \/ /\ change > 0
               /\ outputs' = [outputs EXCEPT ![c] = <<<<w.key, change, Blinding(w)>>>>]
            \/ outputs' = [outputs EXCEPT ![c] = <<>>]
      \/ /\ wallets' = [wallets EXCEPT ![id] = Lock(w, s)]
         /\ outputs' = [outputs EXCEPT ![c] = <<>>]
  BY DEF Spend, PrepareTransfer, PrepareWithdraw
<1>6. \E out :
        /\ outputs' = [outputs EXCEPT ![c] = out] /\ out \in Seq(NoteCommitments)
        /\ \/ out = <<>>
           \/ /\ wallets' = [wallets EXCEPT ![id] = taken]
              /\ DOMAIN out = {1} /\ out[1][3] = Blinding(w)
  <2>1. CASE outputs' = [outputs EXCEPT ![c] = <<>>]
    <3>1. <<>> \in Seq(NoteCommitments)
      OBVIOUS
    <3> QED
      BY <2>1, <3>1, Zenon
  <2>2. CASE /\ wallets' = [wallets EXCEPT ![id] = taken]
             /\ outputs' = [outputs EXCEPT ![c] = <<<<Payee, a, Blinding(w)>>>>]
    <3> DEFINE o == <<Payee, a, Blinding(w)>>
    <3>1. o \in NoteCommitments /\ o[3] = Blinding(w)
      BY <1>1 DEF NoteCommitments
    <3> HIDE DEF o, taken
    <3>2. <<o>> \in Seq(NoteCommitments) /\ DOMAIN <<o>> = {1} /\ <<o>>[1] = o
      BY <3>1
    <3> QED
      BY <2>2, <3>1, <3>2 DEF o
  <2>3. CASE /\ wallets' = [wallets EXCEPT ![id] = taken] /\ change > 0
             /\ outputs' = [outputs EXCEPT ![c] = <<<<w.key, change, Blinding(w)>>>>]
    <3> DEFINE o == <<w.key, change, Blinding(w)>>
    <3>1. o \in NoteCommitments /\ o[3] = Blinding(w)
      BY <1>1, <1>3, <2>3 DEF NoteCommitments
    <3> HIDE DEF o, taken, change
    <3>2. <<o>> \in Seq(NoteCommitments) /\ DOMAIN <<o>> = {1} /\ <<o>>[1] = o
      BY <3>1
    <3> QED
      BY <2>3, <3>1, <3>2 DEF o
  <2> HIDE DEF taken, change
  <2> QED
    BY <1>5, <2>1, <2>2, <2>3
<1>7. PICK out :
        /\ outputs' = [outputs EXCEPT ![c] = out] /\ out \in Seq(NoteCommitments)
        /\ \/ out = <<>>
           \/ /\ wallets' = [wallets EXCEPT ![id] = taken]
              /\ DOMAIN out = {1} /\ out[1][3] = Blinding(w)
  BY <1>6
<1> HIDE DEF taken
<1>8. /\ WalletStep(id, Positions(s), {})
      /\ wallets'[id].nextBlinding >= w.nextBlinding
      /\ out # <<>> => wallets'[id].nextBlinding = w.nextBlinding + 1
  <2>1. CASE wallets' = [wallets EXCEPT ![id] = taken]
    <3>1. WalletStep(id, Positions(s), {}) /\ wallets'[id] = taken
      BY <1>4, <2>1, StepOfWallet
    <3> QED
      BY <1>1, <1>4, <3>1
  <2>2. CASE out = <<>> /\ wallets' = [wallets EXCEPT ![id] = Lock(w, s)]
    <3> DEFINE v == Lock(w, s)
    <3>1. Evolves(w, v, Positions(s), {}) /\ v.nextBlinding = w.nextBlinding
      BY <1>4
    <3> HIDE DEF v
    <3>2. wallets' = [wallets EXCEPT ![id] = v]
      BY <2>2 DEF v
    <3>3. WalletStep(id, Positions(s), {}) /\ wallets'[id] = v
      BY <3>1, <3>2, StepOfWallet
    <3> QED
      BY <1>1, <2>2, <3>1, <3>3
  <2> QED
    BY <1>5, <1>7, <2>1, <2>2
<1>9. outputs'[c] = out /\ \A d \in Calls \ {c} : outputs'[d] = outputs[d]
  BY <1>7 DEF TypeOK
<1>10. \A i \in DOMAIN out : i = 1 /\ out[i][3] = Blinding(w) /\ out # <<>>
  BY <1>7
<1>11. OneMore(c, id)
  <2>1. \A i \in DOMAIN outputs'[c] :
            /\ i = 1 /\ outputs'[c][i][3] = Blinding(w)
            /\ wallets'[id].nextBlinding = w.nextBlinding + 1
    BY <1>8, <1>9, <1>10
  <2>2. \A d \in Calls \ {c} : outputs'[d] = outputs[d]
    BY <1>9
  <2>3. wallets'[id].nextBlinding >= wallets[id].nextBlinding
    BY <1>8
  <2> QED
    BY <2>1, <2>2, <2>3 DEF OneMore
<1> QED
  BY <1>7, <1>8, <1>11 DEF TypeOK

LEMMA SpendStarts ==
    ASSUME HoldInv, NEW c \in Calls, NEW h \in Hooks, NEW k \in Spends, NEW a \in Amounts[c],
           NEW s \in Selections(wallets[<<page, h>>], a), Spend(c, h, k, a, s)
    PROVE  Starts(c, h)
<1> DEFINE id == <<page, h>>
           w == wallets[id]
           f == [i \in DOMAIN s |-> Commitment(w.notes[s[i]])]
<1>1. k \in Functions /\ k \notin Deposits /\ a \in Nat /\ Begin(c, h, k)
  BY AppAssumption DEF Spends, Functions, Deposits, Spend
<1>2. Called(c, h, k)
  BY <1>1, CallsAreCalled
<1>3. /\ TypeOK /\ id \in Ids /\ Made(id) /\ w \in Wallets /\ page \in Nat
      /\ inputs[c] = <<>> /\ DOMAIN spends[c] = {} /\ c \notin sent
  BY <1>2, Uncalled DEF Called
<1>4. /\ outputs' \in [Calls -> Seq(NoteCommitments)]
      /\ WalletStep(id, Positions(s), {}) /\ OneMore(c, id)
  BY <1>1, <1>3, SpendPrepares
<1>5. /\ s \in Seq(Nat) /\ Len(s) \in {1, 2} /\ \A i \in DOMAIN s : s[i] \in DOMAIN w.notes
  BY <1>3, Selected
<1>6. f \in Seq(NoteCommitments) /\ DOMAIN f = DOMAIN s
  <2>1. \A i \in DOMAIN s : f[i] \in NoteCommitments
    BY <1>3, <1>5, WalletFields, NoteCommitted
  <2>2. f \in [1 .. Len(s) -> NoteCommitments] /\ Len(s) \in Nat /\ DOMAIN s = 1 .. Len(s)
    BY <1>5, <2>1
  <2> HIDE DEF f
  <2> QED
    BY <2>2
<1>7. /\ total' = [total EXCEPT ![c] = a] /\ inputs' = [inputs EXCEPT ![c] = s]
      /\ spends' = [spends EXCEPT ![c] = f]
  BY DEF Spend
<1>8. \A i \in DOMAIN s : f[i] = Commitment(w.notes[s[i]])
  OBVIOUS
<1>9. \A i \in DOMAIN w.notes :
        /\ i \in DOMAIN wallets'[id].notes
        /\ Commitment(wallets'[id].notes[i]) = Commitment(w.notes[i])
  BY <1>3, <1>4, WalletsFollow
<1>10. wallets'[id].key = w.key
  BY <1>3, <1>4, WalletsFollow
<1> HIDE DEF f
<1>11. /\ inputs'[c] = s /\ spends'[c] = f /\ kind'[c] = k /\ walletOf'[c] = id
       /\ \A d \in Calls \ {c} : inputs'[d] = inputs[d] /\ spends'[d] = spends[d]
  BY <1>2, <1>3, <1>7 DEF TypeOK, Called
<1>12. Holds(c)'
  <2>1. walletOf[c]'[1] <= page' /\ walletOf[c]' \notin loading'
    <3>1. page' = page /\ loading' = loading /\ id \notin loading
      BY <1>2 DEF Called, pageVars
    <3>2. id[1] = page /\ page <= page
      BY <1>3
    <3> QED
      BY <1>11, <3>1, <3>2
  <2>2. Made(walletOf[c])'
    BY <1>3, <1>10, <1>11 DEF Made
  <2>3. \A i \in DOMAIN inputs[c]' :
          /\ inputs'[c][i] \in DOMAIN Wallet(c)'.notes
          /\ Commitment(Wallet(c)'.notes[inputs'[c][i]]) = spends'[c][i]
    BY <1>5, <1>8, <1>9, <1>11 DEF Wallet
  <2> QED
    BY <1>1, <1>5, <1>6, <1>11, <2>1, <2>2, <2>3 DEF Holds
<1>13. /\ total' \in [Calls -> Nat] /\ inputs' \in [Calls -> Seq(Nat)]
       /\ spends' \in [Calls -> Seq(NoteCommitments)]
  BY <1>1, <1>3, <1>5, <1>6, <1>7 DEF TypeOK
<1> QED
  BY <1>1, <1>2, <1>3, <1>4, <1>11, <1>12, <1>13 DEF Called, Starts, TypeOK

LEMMA CallsStart ==
    ASSUME HoldInv, NEW c \in Calls, NEW h \in Hooks, Call(c, h)
    PROVE  Starts(c, h)
<1>1. TypeOK
  BY DEF HoldInv
<1>2. ASSUME NEW k \in Functions, Begin(c, h, k) \/ Refused(c, h, k)
      PROVE  Called(c, h, k) /\ <<page, h>> \in Ids
  BY <1>2, CallsAreCalled, Uncalled DEF Called
<1>3. ASSUME NEW k \in Functions, Begin(c, h, k) \/ Refused(c, h, k),
             total' \in [Calls -> Nat], UNCHANGED <<wallets, outputs, inputs, spends>>,
             Begin(c, h, k) => k \notin Spends \cup {"deposit"}
      PROVE  Starts(c, h)
  <2>1. WalletStep(<<page, h>>, {}, {}) /\ OneMore(c, <<page, h>>)
    BY <1>1, <1>2, <1>3, StepOfNone, NoneMore
  <2>2. outputs' \in [Calls -> Seq(NoteCommitments)]
    BY <1>1, <1>3 DEF TypeOK
  <2> QED
    BY <1>2, <1>3, <2>1, <2>2, QuietStarts
<1>4. ASSUME NEW a \in Amounts[c], Deposit(c, h, a) PROVE Starts(c, h)
  <2>1. /\ Begin(c, h, "deposit") /\ total' = [total EXCEPT ![c] = a] /\ a \in Nat
        /\ TakeBlinding(c, <<page, h>>, a) /\ UNCHANGED <<inputs, spends>>
        /\ "deposit" \in Functions /\ "deposit" \notin Spends
    BY <1>4, AppAssumption DEF Deposit, Functions, Spends
  <2>2. Called(c, h, "deposit") /\ <<page, h>> \in Ids
    BY <1>2, <2>1
  <2>3. /\ outputs' \in [Calls -> Seq(NoteCommitments)] /\ outputs'[c] # <<>>
        /\ OneMore(c, <<page, h>>) /\ WalletStep(<<page, h>>, {}, {})
    BY <1>1, <2>1, <2>2, TakeBlindingTyped
  <2>4. total' \in [Calls -> Nat]
    BY <1>1, <2>1 DEF TypeOK
  <2> QED
    BY <2>1, <2>2, <2>3, <2>4, QuietStarts
<1>5. ASSUME NEW a \in Amounts[c], StealthSend(c, h, a) PROVE Starts(c, h)
  <2>1. total' \in [Calls -> Nat]
    BY <1>1, <1>5, AppAssumption DEF StealthSend, TypeOK
  <2>2. "stealthSend" \in Functions /\ "stealthSend" \notin Spends \cup {"deposit"}
    BY DEF Functions, Spends
  <2> QED
    BY <1>3, <1>5, <2>1, <2>2 DEF StealthSend
<1>6. ASSUME NEW k \in {"stealthScan", "disclose", "wealth"}, Request(c, h, k)
      PROVE  Starts(c, h)
  <2>1. total' \in [Calls -> Nat] /\ k \in Functions /\ k \notin Spends \cup {"deposit"}
    BY <1>1, <1>6 DEF Request, TypeOK, Functions, Spends
  <2> QED
    BY <1>3, <1>6, <2>1 DEF Request
<1>7. ASSUME NEW k \in Functions, Refused(c, h, k) PROVE Starts(c, h)
  <2>1. total' \in [Calls -> Nat]
    BY <1>1, <1>7 DEF Refused, TypeOK
  <2>2. ~Begin(c, h, k)
    <3>1. result'[c] = "error" /\ result[c] = "none"
      BY <1>1, <1>7 DEF HoldInv, CallInv, Refused, TypeOK
    <3> QED
      BY <3>1 DEF Begin
  <2> QED
    BY <1>3, <1>7, <2>1, <2>2 DEF Refused
<1> QED
  BY <1>4, <1>5, <1>6, <1>7, SpendStarts DEF Call

LEMMA CallsHold ==
    ASSUME HoldInv, CallInv', PageInv', NEW c \in Calls, NEW h \in Hooks, Starts(c, h)
    PROVE  HoldInv'
<1>1. TypeOK /\ CallInv /\ <<page, h>> \in Ids /\ WalletStep(<<page, h>>, Positions(inputs'[c]), {})
  BY AppAssumption DEF HoldInv, TypeOK, Ids, Starts
<1>2. TypeOK'
  BY <1>1 DEF TypeOK, CallInv, Starts, WalletStep, pageVars, chainVars, Statuses
<1>3. ASSUME NEW d \in Calls PROVE Holds(d)'
  <2>1. CASE d = c
    BY <2>1 DEF Starts
  <2>2. CASE d # c
    <3>1. /\ UNCHANGED <<page, loading, sent>>
          /\ kind'[d] = kind[d] /\ walletOf'[d] = walletOf[d] /\ inputs'[d] = inputs[d]
          /\ spends'[d] = spends[d] /\ todo'[d] = todo[d] /\ outputs'[d] = outputs[d]
      BY <1>1, <2>2 DEF Starts, OneMore, TypeOK, pageVars, chainVars
    <3>2. Running(d)' <=> Running(d)
      BY <3>1 DEF Running
    <3>3. Running(d) /\ kind[d] \in Deposits /\ todo[d][1] # "stealth" => outputs[d] # <<>>
      BY DEF HoldInv, Holds
    <3> QED
      BY <1>1, <3>1, <3>2, <3>3, StillHolds
  <2> QED
    BY <2>1, <2>2
<1>4. ASSUME NEW g \in Hooks PROVE <<page', g>> \in loading' \/ Made(<<page, g>>)'
  <2>1. <<page, g>> \in Ids /\ page' = page /\ loading' = loading
    BY <1>1 DEF TypeOK, Ids, Starts, pageVars
  <2>2. wallets'[<<page, g>>].key = wallets[<<page, g>>].key
    BY <1>1, <2>1, WalletsFollow
  <2> QED
    BY <2>1, <2>2 DEF HoldInv, Made
<1> QED
  BY <1>2, <1>3, <1>4 DEF HoldInv

LEMMA AwaitsStatus ==
    ASSUME HoldInv, CallInv', NEW c \in Calls, Proceed(c)
    PROVE  status' \in [Hooks -> Statuses]
<1>1. status \in [Hooks -> Statuses] /\ todo \in [Calls -> Seq(Awaits)]
  BY DEF HoldInv, TypeOK, Statuses
<1>2. ASSUME NEW s \in Statuses, SetStatus(walletOf[c], s)
      PROVE  status' \in [Hooks -> Statuses]
  BY <1>1, <1>2 DEF SetStatus
<1>3. CASE Throws(c)
  BY <1>2, <1>3 DEF Throws, Statuses, Idle
<1>4. ASSUME NEW awaits, NEW left, Pass(c, awaits, left)
      PROVE  status' \in [Hooks -> Statuses]
  <2>1. left \in Seq(Awaits)
    <3>1. todo'[c] = left
      BY <1>1, <1>4 DEF Pass
    <3> QED
      BY <3>1 DEF CallInv
  <2>2. CASE left = <<>>
    BY <1>2, <1>4, <2>2 DEF Pass, Statuses, Idle
  <2>3. CASE left # <<>>
    <3>1. left[1] \in Awaits
      BY <2>1, <2>3
    <3> QED
      BY <1>2, <1>4, <2>3, <3>1, StatusTyped DEF Pass
  <2> QED
    BY <2>2, <2>3
<1> QED
  BY <1>3, <1>4 DEF Proceed, StealthDerived, NoteMade, ChangePrepared, Passes, AllowanceRead,
                    Approved, Signed, Confirmed, Receipt

\* Of the calls, an await changes what one has left; it may have been sent then.
LEMMA AwaitsLeave ==
    ASSUME TypeOK, NEW c \in Calls, Proceed(c)
    PROVE  /\ Running(c) /\ sent' \in {sent, sent \cup {c}}
           /\ \A d \in Calls \ {c} : todo'[d] = todo[d] /\ result'[d] = result[d]
<1>1. Advances(c) \/ Throws(c)
  BY AwaitsAdvance
<1>2. sent' \in {sent, sent \cup {c}} /\ Running(c)
  BY <1>1 DEF Advances, Throws
<1>3. \E left, r : todo' = [todo EXCEPT ![c] = left] /\ result' = [result EXCEPT ![c] = r]
  BY <1>1 DEF Advances, Throws
<1> QED
  BY <1>2, <1>3 DEF TypeOK

LEMMA AwaitsHold ==
    ASSUME HoldInv, CallInv', PageInv', NEW c \in Calls, Proceed(c)
    PROVE  HoldInv'
<1> DEFINE M == IF Settles(c) THEN Shown(c) ELSE {}
           id == walletOf[c]
<1>1. TypeOK /\ CallInv /\ id \in Ids /\ Effect(c) /\ WalletStep(id, {}, M)
  BY AwaitEffects DEF HoldInv, TypeOK, Effect
<1>2. /\ Running(c) /\ sent' \in {sent, sent \cup {c}}
      /\ \A d \in Calls \ {c} : todo'[d] = todo[d] /\ result'[d] = result[d]
  BY <1>1, AwaitsLeave
<1>3. TypeOK'
  <2>1. status' \in [Hooks -> Statuses]
    BY AwaitsStatus
  <2> QED
    BY <1>1, <2>1 DEF TypeOK, CallInv, Effect, WalletStep, pageVars, Statuses
<1> HIDE DEF M
<1>4. ASSUME NEW d \in Calls PROVE Holds(d)'
  <2>1. /\ UNCHANGED <<page, loading>> /\ kind'[d] = kind[d] /\ walletOf'[d] = walletOf[d]
        /\ inputs'[d] = inputs[d] /\ spends'[d] = spends[d]
        /\ d \in sent' => d \in sent \/ Running(d)
    BY <1>1, <1>2 DEF Effect, pageVars
  <2>2. Running(d)' => Running(d)
    BY <1>2 DEF Running
  <2>3. Running(d) /\ kind[d] \in Deposits /\ todo[d][1] # "stealth" => outputs[d] # <<>>
    BY DEF HoldInv, Holds
  <2>4. Running(d)' /\ kind[d] \in Deposits /\ todo'[d][1] # "stealth" => outputs'[d] # <<>>
    <3>1. CASE d = c
      BY <1>1, <1>2, <2>3, <3>1 DEF Effect
    <3>2. CASE d # c
      <4>1. outputs'[d] = outputs[d] /\ todo'[d] = todo[d]
        BY <1>1, <1>2, <3>2 DEF Effect, OneMore
      <4> QED
        BY <2>2, <2>3, <4>1
    <3> QED
      BY <3>1, <3>2
  <2> QED
    BY <1>1, <2>1, <2>2, <2>4, StillHolds
<1>5. ASSUME NEW g \in Hooks PROVE <<page', g>> \in loading' \/ Made(<<page, g>>)'
  <2>1. <<page, g>> \in Ids /\ page' = page /\ loading' = loading
    BY <1>1, AppAssumption DEF TypeOK, Ids, Effect, pageVars
  <2>2. wallets'[<<page, g>>].key = wallets[<<page, g>>].key
    BY <1>1, <2>1, WalletsFollow
  <2> QED
    BY <2>1, <2>2 DEF HoldInv, Made
<1> QED
  BY <1>3, <1>4, <1>5 DEF HoldInv

\* What the pool and the bridge make of a transaction.
LEMMA Executed ==
    ASSUME HoldInv, NEW c \in Calls, Execute(c)
    PROVE  /\ leaves' \in [Hooks -> SUBSET NoteCommitments]
           /\ nullifiers' \in [Hooks -> SUBSET NoteCommitments]
           /\ locked' \subseteq NoteCommitments /\ allowance' \in Nat
           /\ \A h \in Hooks : nullifiers[h] \subseteq nullifiers'[h]
           /\ outcome[c] = "none" /\ \A d \in Calls \ {c} : outcome'[d] = outcome[d]
           /\ outcome'[c] = "ok" /\ kind[c] # "bridge" =>
                Shown(c) \subseteq nullifiers'[HookOf(c)]
<1>1. /\ TypeOK /\ Holds(c) /\ HookOf(c) \in Hooks /\ c \in sent
      /\ total[c] \in Nat /\ allowance \in Nat
  BY DEF HoldInv, TypeOK, HookOf, Ids, Execute
<1>2. Shown(c) \subseteq NoteCommitments
  <2>1. spends[c] \in Seq(NoteCommitments)
    BY <1>1 DEF TypeOK
  <2> QED
    BY <2>1 DEF Shown
<1>3. {outputs[c][k] : k \in DOMAIN outputs[c]} \subseteq NoteCommitments
  <2>1. outputs[c] \in Seq(NoteCommitments)
    BY <1>1 DEF TypeOK
  <2> QED
    BY <2>1
<1>4. kind[c] = "bridge" => spends[c][1] \in NoteCommitments
  <2>1. spends[c] \in Seq(NoteCommitments) /\ inputs[c] \in Seq(Nat)
    BY <1>1 DEF TypeOK
  <2>2. kind[c] = "bridge" => 1 \in DOMAIN spends[c]
    BY <1>1, <2>1 DEF Holds, Spends
  <2> QED
    BY <2>1, <2>2
<1>5. CASE Succeeds(c)
  <2>1. kind[c] \in Deposits /\ HookOf(c) = "evm" => allowance >= total[c]
    BY <1>5 DEF Succeeds, Acceptable, Deposits
  <2>2. allowance' \in Nat
    BY <1>1, <2>1, <1>5 DEF Succeeds
  <2>3. /\ outcome' = [outcome EXCEPT ![c] = "ok"] /\ outcome[c] = "none"
        /\ leaves' = [leaves EXCEPT ![HookOf(c)] =
                        leaves[HookOf(c)] \cup {outputs[c][k] : k \in DOMAIN outputs[c]}]
        /\ nullifiers' = [nullifiers EXCEPT ![HookOf(c)] =
                            IF kind[c] = "bridge" THEN nullifiers[HookOf(c)]
                            ELSE nullifiers[HookOf(c)] \cup Shown(c)]
        /\ locked' = IF kind[c] = "bridge" THEN locked \cup {spends[c][1]} ELSE locked
    BY <1>1, <1>5 DEF Execute, Succeeds, TypeOK
  <2>4. leaves' \in [Hooks -> SUBSET NoteCommitments] /\ locked' \subseteq NoteCommitments
    BY <1>1, <1>3, <1>4, <2>3 DEF TypeOK
  <2>5. /\ nullifiers' \in [Hooks -> SUBSET NoteCommitments]
        /\ \A h \in Hooks : nullifiers[h] \subseteq nullifiers'[h]
        /\ kind[c] # "bridge" => Shown(c) \subseteq nullifiers'[HookOf(c)]
    BY <1>1, <1>2, <2>3 DEF TypeOK
  <2> QED
    BY <1>1, <2>2, <2>3, <2>4, <2>5 DEF TypeOK
<1>6. CASE Reverts(c)
  <2>1. /\ outcome' = [outcome EXCEPT ![c] = "failed"] /\ outcome[c] = "none"
        /\ UNCHANGED <<leaves, nullifiers, locked, allowance>>
    BY <1>6 DEF Execute, Reverts
  <2> QED
    BY <1>1, <2>1 DEF TypeOK
<1> QED
  BY <1>5, <1>6 DEF Execute

LEMMA ExecutionHolds ==
    ASSUME HoldInv, CallInv', PageInv', NEW c \in Calls, Execute(c)
    PROVE  HoldInv'
<1>1. UNCHANGED <<pageVars, wallets, status, todo, result, argVars, sent, approval>>
  BY DEF Execute
<1>2. TypeOK'
  BY <1>1, Executed DEF HoldInv, TypeOK, CallInv, pageVars, argVars
<1>3. \A d \in Calls : Holds(d)'
  BY <1>1 DEF HoldInv, Holds, Running, Made, Wallet, pageVars, argVars
<1> QED
  BY <1>1, <1>2, <1>3 DEF HoldInv, Made, pageVars

LEMMA ApprovalHolds ==
    ASSUME HoldInv, CallInv', PageInv', NEW c \in Calls, ApproveExecutes(c)
    PROVE  HoldInv'
<1>1. UNCHANGED <<pageVars, wallets, status, todo, result, argVars, sent, outcome, leaves,
                  nullifiers, locked>>
  BY DEF ApproveExecutes
<1>2. TypeOK'
  BY <1>1 DEF HoldInv, TypeOK, CallInv, ApproveExecutes, pageVars, argVars
<1>3. \A d \in Calls : Holds(d)'
  BY <1>1 DEF HoldInv, Holds, Running, Made, Wallet, pageVars, argVars
<1> QED
  BY <1>1, <1>2, <1>3 DEF HoldInv, Made, pageVars

LEMMA ReadyWallet ==
    ASSUME TypeOK, NEW id \in Ids, WalletReady(id)
    PROVE  /\ wallets' \in [Ids -> Wallets] /\ stored' \in Keys
           /\ wallets'[id].key # None /\ wallets'[id].notes = <<>>
           /\ wallets'[id].nextBlinding = 0
           /\ \A j \in Ids \ {id} : wallets'[j] = wallets[j]
<1> DEFINE key == IF seen[id[1]] = None THEN Key(id) ELSE seen[id[1]]
<1>1. id[1] \in 1 .. MaxPages
  BY DEF Ids
<1>2. key \in Keys /\ key # None /\ Key(id) \in Keys
  BY <1>1, KeysAreStored DEF TypeOK, Keys
<1>3. wallets' = [wallets EXCEPT ![id] = NewWallet(key)] /\ stored' \in {stored, Key(id)}
  BY DEF WalletReady
<1> HIDE DEF key
<1>4. /\ NewWallet(key) \in Wallets /\ NewWallet(key).key = key
      /\ NewWallet(key).notes = <<>> /\ NewWallet(key).nextBlinding = 0
  BY <1>2, NewWalletTyped
<1> QED
  BY <1>2, <1>3, <1>4 DEF TypeOK

LEMMA ReadinessHolds ==
    ASSUME HoldInv, CallInv', PageInv', NEW id \in Ids, WalletReady(id)
    PROVE  HoldInv'
<1>1. TypeOK /\ id \in loading
  BY DEF HoldInv, WalletReady
<1>2. /\ wallets' \in [Ids -> Wallets] /\ stored' \in Keys /\ wallets'[id].key # None
      /\ \A j \in Ids \ {id} : wallets'[j] = wallets[j]
  BY <1>1, ReadyWallet
<1>3. /\ loading' = loading \ {id}
      /\ UNCHANGED <<page, seen, status, todo, result, argVars, chainVars>>
  BY DEF WalletReady
<1>4. TypeOK'
  BY <1>1, <1>2, <1>3 DEF TypeOK, argVars, chainVars
<1>5. ASSUME NEW d \in Calls PROVE Holds(d)'
  <2>1. /\ UNCHANGED <<page, todo, kind, walletOf, inputs, spends, outputs, sent>>
        /\ walletOf[d] \in Ids /\ Holds(d) /\ loading' \subseteq loading
        /\ Running(d)' <=> Running(d)
    BY <1>1, <1>3 DEF HoldInv, TypeOK, argVars, chainVars, Running
  <2>2. CASE walletOf[d] # id
    <3>1. wallets'[walletOf[d]] = wallets[walletOf[d]]
      BY <1>2, <2>1, <2>2
    <3>2. /\ Made(walletOf[d])' <=> Made(walletOf[d])
          /\ Wallet(d)' = Wallet(d)
      BY <2>1, <3>1 DEF Made, Wallet
    <3> QED
      BY <2>1, <3>2 DEF Holds
  <2>3. CASE walletOf[d] = id
    <3>1. kind[d] = "none"
      BY <1>1, <2>1, <2>3 DEF Holds
    <3>2. ~Running(d) /\ inputs[d] = <<>>
      BY <2>1, <3>1 DEF HoldInv, CallInv, Underway, Functions, Holds, Spends
    <3> QED
      BY <2>1, <3>1, <3>2 DEF Holds, Spends, Deposits
  <2> QED
    BY <2>2, <2>3
<1>6. ASSUME NEW g \in Hooks PROVE <<page', g>> \in loading' \/ Made(<<page, g>>)'
  <2>1. <<page, g>> \in Ids /\ page' = page
    BY <1>1, <1>3, AppAssumption DEF TypeOK, Ids
  <2>2. CASE <<page, g>> = id
    BY <1>2, <2>1, <2>2 DEF Made
  <2>3. CASE <<page, g>> # id
    BY <1>2, <1>3, <2>1, <2>3 DEF HoldInv, Made
  <2> QED
    BY <2>2, <2>3
<1> QED
  BY <1>4, <1>5, <1>6 DEF HoldInv

\* A page that is left keeps its calls; none is of the next page.
LEMMA MountHolds ==
    ASSUME HoldInv, CallInv', PageInv', NEW survivors \in SUBSET loading, Mount(survivors),
           wallets' \in [Ids -> Wallets],
           \/ UNCHANGED <<wallets, todo>>
           \/ /\ \A id \in Ids : wallets'[id].key = None
              /\ \A c \in Calls : todo'[c] = <<>>
    PROVE  HoldInv'
<1>1. TypeOK /\ page \in Nat /\ page + 1 \in 1 .. MaxPages /\ stored \in Keys
  BY AppAssumption DEF HoldInv, TypeOK, Mount
<1>2. /\ page' = page + 1 /\ seen' = [seen EXCEPT ![page + 1] = stored]
      /\ loading' = survivors \cup {<<page + 1, h>> : h \in Hooks}
      /\ status' = [h \in Hooks |-> "idle"] /\ UNCHANGED <<stored, argVars, chainVars>>
  BY DEF Mount
<1>3. {<<page + 1, h>> : h \in Hooks} \subseteq Ids
  BY <1>1 DEF Ids
<1>4. TypeOK'
  <2>1. seen' \in [1 .. MaxPages -> Keys] /\ loading' \subseteq Ids
    BY <1>1, <1>2, <1>3 DEF TypeOK
  <2>2. status' \in [Hooks -> Idle \cup {"generating", "sending", "confirming"}]
    BY <1>2 DEF Idle
  <2> QED
    BY <1>1, <1>2, <2>1, <2>2 DEF TypeOK, CallInv, argVars, chainVars
<1>5. ASSUME NEW d \in Calls PROVE Holds(d)'
  <2>1. /\ UNCHANGED <<kind, walletOf, inputs, spends, outputs, sent>>
        /\ walletOf[d] \in Ids /\ Holds(d)
    BY <1>1, <1>2 DEF HoldInv, TypeOK, argVars, chainVars
  <2>2. walletOf[d][1] \in Nat /\ walletOf[d][1] <= page
    BY <2>1 DEF Holds, Ids
  <2>3. walletOf[d][1] <= page'
    BY <1>1, <1>2, <2>2
  <2>4. kind[d] # "none" => walletOf[d] \notin loading'
    <3>1. \A h \in Hooks : walletOf[d] # <<page + 1, h>>
      BY <1>1, <2>2
    <3>2. kind[d] # "none" => walletOf[d] \notin survivors
      BY <2>1 DEF Holds
    <3> QED
      BY <1>2, <3>1, <3>2
  <2>5. CASE UNCHANGED <<wallets, todo>>
    <3>1. (Running(d)' <=> Running(d)) /\ Wallet(d)' = Wallet(d)
          /\ (Made(walletOf[d])' <=> Made(walletOf[d]))
      BY <2>1, <2>5 DEF Running, Wallet, Made
    <3> QED
      BY <2>1, <2>3, <2>4, <2>5, <3>1 DEF Holds
  <2>6. CASE wallets'[walletOf[d]].key = None /\ todo'[d] = <<>>
    <3>1. ~Running(d)' /\ ~Made(walletOf[d])'
      BY <2>1, <2>6 DEF Running, Made
    <3> QED
      BY <2>1, <2>3, <2>4, <3>1 DEF Holds
  <2> QED
    BY <2>1, <2>5, <2>6
<1>6. \A g \in Hooks : <<page', g>> \in loading'
  BY <1>2
<1> QED
  BY <1>4, <1>5, <1>6 DEF HoldInv

LEMMA UsedWalletTyped ==
    /\ UsedWallet \in Wallets /\ UsedWallet.key = FirstKey /\ FirstKey \in Keys
    /\ \A i \in DOMAIN UsedWallet.notes : /\ ~UsedWallet.notes[i].spent
                                          /\ ~UsedWallet.notes[i].pending
<1> DEFINE new == NewWallet(FirstKey)
           f == [k \in DOMAIN FirstNotes |-> OwnNote(new, FirstNotes[k], <<FirstKey, k - 1>>)]
<1>1. FirstKey \in Keys
  <2>1. <<1, "solana">> \in Ids
    BY AppAssumption DEF Ids, Hooks
  <2> QED
    BY <2>1 DEF FirstKey, Keys
<1>2. FirstNotes \in Seq(Nat) /\ Len(FirstNotes) \in Nat /\ DOMAIN FirstNotes = 1 .. Len(FirstNotes)
  BY AppAssumption
<1>3. new \in Wallets /\ new.key = FirstKey
  BY <1>1, NewWalletTyped
<1>4. UsedWallet = [new EXCEPT !.notes = f, !.nextBlinding = Len(FirstNotes)]
  BY DEF UsedWallet
<1> HIDE DEF new
<1>5. ASSUME NEW k \in DOMAIN FirstNotes
      PROVE  f[k] \in AppNotes /\ ~f[k].spent /\ ~f[k].pending
  <2>1. <<FirstKey, k - 1>> \in Blindings /\ FirstNotes[k] \in Nat
    BY <1>1, <1>2 DEF Blindings
  <2> QED
    BY <1>3, <2>1, OwnNoteTyped
<1>6. f \in Seq(AppNotes) /\ DOMAIN f = DOMAIN FirstNotes
  <2>1. f \in [1 .. Len(FirstNotes) -> AppNotes]
    BY <1>2, <1>5
  <2> HIDE DEF f
  <2> QED
    BY <1>2, <2>1
<1> HIDE DEF f
<1>7. UsedWallet \in Wallets /\ UsedWallet.key = FirstKey /\ UsedWallet.notes = f
  BY <1>2, <1>3, <1>4, <1>6 DEF Wallets, AppNotes
<1> QED
  BY <1>1, <1>5, <1>6, <1>7

LEMMA CommitmentsTyped ==
    ASSUME NEW w \in Wallets
    PROVE  Commitments(w) \subseteq NoteCommitments
  BY WalletFields, NoteCommitted DEF Commitments

LEMMA FirstHolds == Init => HoldInv
<1> SUFFICES ASSUME Init PROVE HoldInv
  OBVIOUS
<1>1. CallInv /\ PageInv
  BY FirstCalls, FirstPages
<1>2. \A h \in Hooks : <<1, h>> \in Ids
  BY AppAssumption DEF Ids
<1>3. NewWallet(None) \in Wallets /\ None \in Keys
  <2>1. None \in Keys
    BY DEF Keys
  <2> QED
    BY <2>1, NewWalletTyped
<1>4. /\ stored \in Keys /\ seen \in [1 .. MaxPages -> Keys] /\ loading \subseteq Ids
      /\ wallets \in [Ids -> Wallets] /\ leaves \in [Hooks -> SUBSET NoteCommitments]
      /\ \A h \in Hooks : <<1, h>> \in loading \/ wallets[<<1, h>>].key # None
  <2>1. CASE FirstVisit
    BY <1>2, <1>3, <2>1 DEF FirstVisit
  <2>2. CASE UsedPage
    <3>1. FirstKey # None
      BY KeysAreStored DEF FirstKey
    <3>2. Commitments(UsedWallet) \subseteq NoteCommitments
      BY UsedWalletTyped, CommitmentsTyped
    <3> QED
      BY <1>2, <1>3, <2>2, <3>1, <3>2, UsedWalletTyped DEF UsedPage
  <2> QED
    BY <2>1, <2>2 DEF Init
<1>5. TypeOK
  <2>1. /\ status \in [Hooks -> Idle \cup {"generating", "sending", "confirming"}]
        /\ total \in [Calls -> Nat] /\ nullifiers \in [Hooks -> SUBSET NoteCommitments]
        /\ locked \subseteq NoteCommitments /\ allowance \in Nat
        /\ approval \in [Calls -> {"none", "sent", "done"}]
    BY DEF Init, Idle
  <2>2. /\ inputs \in [Calls -> Seq(Nat)] /\ spends \in [Calls -> Seq(NoteCommitments)]
        /\ outputs \in [Calls -> Seq(NoteCommitments)]
    <3>1. <<>> \in Seq(Nat) /\ <<>> \in Seq(NoteCommitments)
      OBVIOUS
    <3> QED
      BY <3>1 DEF Init
  <2> QED
    BY <1>1, <1>4, <2>1, <2>2 DEF TypeOK, CallInv
<1>6. \A c \in Calls : Holds(c)
  <2> SUFFICES ASSUME NEW c \in Calls PROVE Holds(c)
    OBVIOUS
  <2>1. /\ page = 1 /\ kind[c] = "none" /\ walletOf[c] = <<1, "solana">> /\ ~Running(c)
        /\ inputs[c] = <<>> /\ spends[c] = <<>>
    BY DEF Init, Running
  <2>2. walletOf[c][1] <= page
    BY <2>1
  <2> QED
    BY <2>1, <2>2 DEF Holds, Spends, Deposits
<1> QED
  BY <1>1, <1>4, <1>5, <1>6 DEF HoldInv, Init, Made

\* Whatever is left of one page or another.
LEMMA HoldKeeps ==
    ASSUME HoldInv, [Next]_vars
    PROVE  HoldInv'
<1>1. CallInv' /\ PageInv'
  BY CallsKeep, PagesKeep DEF HoldInv
<1>2. ASSUME NEW c \in Calls, NEW h \in Hooks, Call(c, h) PROVE HoldInv'
  BY <1>1, <1>2, CallsStart, CallsHold
<1>3. ASSUME NEW c \in Calls, Proceed(c) PROVE HoldInv'
  BY <1>1, <1>3, AwaitsHold
<1>4. ASSUME NEW c \in Calls, Execute(c) \/ ApproveExecutes(c) PROVE HoldInv'
  BY <1>1, <1>4, ExecutionHolds, ApprovalHolds
<1>5. ASSUME NEW id \in Ids, WalletReady(id) PROVE HoldInv'
  BY <1>1, <1>5, ReadinessHolds
<1>6. CASE Navigate
  <2>1. loading \in SUBSET loading /\ wallets' \in [Ids -> Wallets]
    BY <1>6 DEF Navigate, HoldInv, TypeOK
  <2> QED
    BY <1>1, <1>6, <2>1, MountHolds DEF Navigate
<1>7. CASE Reload
  <2>1. NewWallet(None) \in Wallets /\ NewWallet(None).key = None
    <3>1. None \in Keys
      BY DEF Keys
    <3> QED
      BY <3>1, NewWalletTyped
  <2>2. /\ wallets' = [id \in Ids |-> NewWallet(None)] /\ todo' = [c \in Calls |-> <<>>]
        /\ Mount({}) /\ {} \in SUBSET loading
    BY <1>7 DEF Reload
  <2> QED
    BY <1>1, <2>1, <2>2, MountHolds
<1>8. CASE (\E h \in Hooks : Reset(h)) \/ UNCHANGED vars
  <2>1. /\ UNCHANGED <<pageVars, wallets, todo, result, argVars, chainVars>>
        /\ status' = status \/ \E h \in Hooks : status' = [status EXCEPT ![h] = "idle"]
    BY <1>8 DEF Reset, vars
  <2>2. status' \in [Hooks -> Statuses]
    BY <2>1 DEF HoldInv, TypeOK, Statuses, Idle
  <2>3. TypeOK'
    BY <2>1, <2>2 DEF HoldInv, TypeOK, Statuses, pageVars, argVars, chainVars
  <2>4. \A c \in Calls : Holds(c)'
    BY <2>1 DEF HoldInv, Holds, Running, Made, Wallet, pageVars, argVars, chainVars
  <2> QED
    BY <1>1, <2>1, <2>3, <2>4 DEF HoldInv, Made, pageVars
<1> QED
  BY <1>2, <1>3, <1>4, <1>5, <1>6, <1>7, <1>8 DEF Next

-----------------------------------------------------------------------------
(* Marks and locks.                                                        *)

\* The reasons that a spent note's commitment m and a lock of the note at i may have.
Gone(id, m) ==
    \/ m \in nullifiers[id[2]]
    \/ /\ id[2] = "solana"
       /\ \E c \in Calls : /\ walletOf[c] = id /\ result[c] = "done" /\ m \in Shown(c)
                           /\ kind[c] = "bridge" \/ outcome[c] = "failed"

LockedBy(c, id, i) ==
    /\ walletOf[c] = id /\ i \in Positions(inputs[c])
    /\ Running(c) \/ result[c] = "error"

\* A transaction that went through has put its nullifiers on the chain.
MarkInv ==
    /\ HoldInv
    /\ \A c \in Calls : outcome[c] = "ok" /\ kind[c] # "bridge" =>
         Shown(c) \subseteq nullifiers[HookOf(c)]
    /\ \A id \in Ids : \A i \in DOMAIN wallets[id].notes :
         wallets[id].notes[i].spent => Gone(id, Commitment(wallets[id].notes[i]))
    /\ \A id \in Ids : \A i \in DOMAIN wallets[id].notes :
         wallets[id].notes[i].pending => \E c \in Calls : LockedBy(c, id, i)

\* A step that gives every new mark and lock a reason and takes none away.
LEMMA MarksFollow ==
    ASSUME MarkInv, HoldInv', NEW id, NEW P, NEW M, WalletStep(id, P, M),
           \A c \in Calls : outcome'[c] = "ok" /\ kind'[c] # "bridge" =>
             Shown(c)' \subseteq nullifiers'[HookOf(c)'],
           \A j \in Ids : \A m : Gone(j, m) => Gone(j, m)',
           \A m \in M : Gone(id, m)',
           \A i \in P : \E c \in Calls : LockedBy(c, id, i)',
           \A c \in Calls : \A j \in Ids : \A i \in DOMAIN wallets[j].notes :
             LockedBy(c, j, i) => \/ LockedBy(c, j, i)'
                                  \/ j = id /\ Commitment(wallets[j].notes[i]) \in M
    PROVE  MarkInv'
<1>1. TypeOK
  BY DEF MarkInv, HoldInv
<1>2. ASSUME NEW j \in Ids, NEW i \in DOMAIN wallets'[j].notes, wallets'[j].notes[i].spent
      PROVE  Gone(j, Commitment(wallets[j].notes[i]))'
  <2>0. PICK m : m = Commitment(wallets'[j].notes[i])
    OBVIOUS
  <2>1. CASE i \in DOMAIN wallets[j].notes /\ wallets[j].notes[i].spent
    <3>1. Gone(j, Commitment(wallets[j].notes[i]))
      BY <2>1 DEF MarkInv
    <3>2. Commitment(wallets[j].notes[i]) = m
      BY <1>1, <2>0, <2>1, WalletsFollow
    <3>3. Gone(j, m)'
      BY <3>1, <3>2
    <3> QED
      BY <2>0, <3>3 DEF Gone
  <2>2. CASE ~(i \in DOMAIN wallets[j].notes /\ wallets[j].notes[i].spent)
    <3>1. j = id /\ m \in M
      BY <1>2, <2>0, <2>2 DEF WalletStep, Evolves
    <3>2. Gone(j, m)'
      BY <3>1
    <3> QED
      BY <2>0, <3>2 DEF Gone
  <2> QED
    BY <2>1, <2>2
<1>3. ASSUME NEW j \in Ids, NEW i \in DOMAIN wallets'[j].notes, wallets'[j].notes[i].pending
      PROVE  \E c \in Calls : LockedBy(c, j, i)'
  <2>1. CASE j = id /\ i \in P
    BY <2>1
  <2>2. CASE ~(j = id /\ i \in P)
    <3>1. /\ i \in DOMAIN wallets[j].notes /\ wallets[j].notes[i].pending
          /\ j = id => Commitment(wallets'[j].notes[i]) \notin M
      BY <1>3, <2>2 DEF WalletStep, Evolves
    <3>2. Commitment(wallets'[j].notes[i]) = Commitment(wallets[j].notes[i])
      BY <1>1, <3>1, WalletsFollow
    <3>3. PICK c \in Calls : LockedBy(c, j, i)
      BY <3>1 DEF MarkInv
    <3> QED
      BY <3>1, <3>2, <3>3
  <2> QED
    BY <2>1, <2>2
<1> QED
  BY <1>2, <1>3 DEF MarkInv

LEMMA CallsAndMarks ==
    ASSUME MarkInv, HoldInv', NEW c \in Calls, NEW h \in Hooks, Starts(c, h)
    PROVE  MarkInv'
<1>0. PICK id, P : id = <<page, h>> /\ P = Positions(inputs'[c])
  OBVIOUS
<1>1. /\ HoldInv /\ TypeOK /\ CallInv /\ kind[c] = "none" /\ result[c] = "none"
      /\ outcome[c] = "none" /\ inputs[c] = <<>> /\ DOMAIN spends[c] = {}
      /\ WalletStep(id, P, {})
  <2>1. HoldInv /\ TypeOK /\ CallInv
    BY DEF MarkInv, HoldInv
  <2>2. kind[c] = "none" /\ <<page, h>> \notin loading /\ WalletStep(id, P, {})
    BY <1>0 DEF Starts
  <2>3. inputs[c] = <<>> /\ DOMAIN spends[c] = {}
    BY <2>1, <2>2, Uncalled
  <2> QED
    BY <2>1, <2>2, <2>3 DEF CallInv
<1>2. /\ UNCHANGED <<outcome, nullifiers>> /\ walletOf'[c] = id
      /\ \A d \in Calls \ {c} :
           /\ kind'[d] = kind[d] /\ walletOf'[d] = walletOf[d] /\ todo'[d] = todo[d]
           /\ result'[d] = result[d] /\ inputs'[d] = inputs[d] /\ spends'[d] = spends[d]
  BY <1>0, <1>1 DEF Starts, chainVars, TypeOK
<1>3. \A d \in Calls : outcome'[d] = "ok" /\ kind'[d] # "bridge" =>
        Shown(d)' \subseteq nullifiers'[HookOf(d)']
  <2> SUFFICES ASSUME NEW d \in Calls, outcome'[d] = "ok", kind'[d] # "bridge"
               PROVE  Shown(d)' \subseteq nullifiers'[HookOf(d)']
    OBVIOUS
  <2>1. d # c
    BY <1>1, <1>2
  <2>2. Shown(d)' = Shown(d) /\ HookOf(d)' = HookOf(d)
    BY <1>2, <2>1 DEF Shown, HookOf
  <2> QED
    BY <1>2, <2>1, <2>2 DEF MarkInv
<1>4. ASSUME NEW j \in Ids, NEW m, Gone(j, m) PROVE Gone(j, m)'
  <2>1. CASE m \in nullifiers[j[2]]
    BY <1>2, <2>1 DEF Gone
  <2>2. CASE m \notin nullifiers[j[2]]
    <3>1. PICK d \in Calls : /\ walletOf[d] = j /\ result[d] = "done" /\ m \in Shown(d)
                             /\ kind[d] = "bridge" \/ outcome[d] = "failed"
      BY <1>4, <2>2 DEF Gone
    <3>2. d # c
      BY <1>1, <3>1
    <3>3. Shown(d)' = Shown(d)
      BY <1>2, <3>2 DEF Shown
    <3>4. j[2] = "solana"
      BY <1>4, <2>2 DEF Gone
    <3> QED
      BY <1>2, <3>1, <3>2, <3>3, <3>4 DEF Gone
  <2> QED
    BY <2>1, <2>2
<1>5. \A i \in P : \E d \in Calls : LockedBy(d, id, i)'
  <2> SUFFICES ASSUME NEW i \in P PROVE LockedBy(c, id, i)'
    BY DEF LockedBy
  <2>1. inputs'[c] # <<>>
    BY <1>0 DEF Positions
  <2>2. Running(c)'
    BY <2>1 DEF Starts
  <2> QED
    BY <1>0, <1>2, <2>2 DEF LockedBy
<1>6. ASSUME NEW d \in Calls, NEW j \in Ids, NEW i, LockedBy(d, j, i)
      PROVE  LockedBy(d, j, i)'
  <2>1. d # c
    BY <1>1, <1>6 DEF LockedBy, Positions
  <2> QED
    BY <1>2, <1>6, <2>1 DEF LockedBy, Running
<1> QED
  BY <1>1, <1>3, <1>4, <1>5, <1>6, MarksFollow

LEMMA AwaitsAndMarks ==
    ASSUME MarkInv, HoldInv', NEW c \in Calls, Proceed(c)
    PROVE  MarkInv'
<1>0. PICK id, M : id = walletOf[c] /\ M = IF Settles(c) THEN Shown(c) ELSE {}
  OBVIOUS
<1>1. /\ HoldInv /\ TypeOK /\ CallInv /\ Effect(c) /\ id \in Ids /\ WalletStep(id, {}, M)
  BY <1>0, AwaitEffects DEF MarkInv, HoldInv, TypeOK, Effect
<1>2. /\ Running(c) /\ \A d \in Calls \ {c} : todo'[d] = todo[d] /\ result'[d] = result[d]
  BY <1>1, AwaitsLeave
<1>3. UNCHANGED <<kind, walletOf, inputs, spends, outcome, nullifiers>>
  BY <1>1 DEF Effect
<1>4. \A d \in Calls : Shown(d)' = Shown(d) /\ HookOf(d)' = HookOf(d)
  BY <1>3 DEF Shown, HookOf
<1>5. /\ result[c] = "none" /\ Fits(todo[c][1], HookOf(c), kind[c])
      /\ HookOf(c) = "evm" => kind[c] \notin EvmStubs
      /\ Tail(todo[c]) = <<>> <=> todo[c][1] \in Last
  BY <1>1, <1>2, WhereItStands
<1>6. ASSUME NEW j \in Ids, NEW m, Gone(j, m) PROVE Gone(j, m)'
  <2>1. CASE m \in nullifiers[j[2]]
    BY <1>3, <2>1 DEF Gone
  <2>2. CASE m \notin nullifiers[j[2]]
    <3>1. PICK d \in Calls : /\ walletOf[d] = j /\ result[d] = "done" /\ m \in Shown(d)
                             /\ kind[d] = "bridge" \/ outcome[d] = "failed"
      BY <1>6, <2>2 DEF Gone
    <3>2. d # c /\ j[2] = "solana"
      BY <1>5, <1>6, <2>2, <3>1 DEF Gone
    <3> QED
      BY <1>2, <1>3, <1>4, <3>1, <3>2 DEF Gone
  <2> QED
    BY <2>1, <2>2
<1>7. ASSUME Settles(c), NEW m \in Shown(c) PROVE Gone(id, m)'
  <2>1. /\ outcome[c] # "none" /\ result'[c] = "done" /\ todo[c][1] \in {"confirm", "receipt"}
        /\ todo[c][1] = "receipt" => outcome[c] = "ok"
    BY <1>1, <1>7 DEF Effect, Settles
  <2>2. outcome[c] \in {"ok", "failed"}
    BY <1>1, <2>1 DEF TypeOK
  <2>3. CASE outcome[c] = "ok" /\ kind[c] # "bridge"
    BY <1>0, <1>3, <1>7, <2>3 DEF MarkInv, Gone, HookOf
  <2>4. CASE kind[c] = "bridge" \/ outcome[c] = "failed"
    <3>1. id[2] = "solana"
      <4>1. HookOf(c) \in Hooks
        BY <1>0, <1>1 DEF HookOf, Ids
      <4>2. HookOf(c) # "evm"
        BY <1>5, <2>1, <2>4 DEF Fits, EvmStubs
      <4> QED
        BY <1>0, <4>1, <4>2 DEF Hooks, HookOf
    <3> QED
      <4>1. walletOf'[c] = id /\ Shown(c)' = Shown(c) /\ m \in Shown(c)
        BY <1>0, <1>3, <1>4, <1>7
      <4>2. kind'[c] = "bridge" \/ outcome'[c] = "failed"
        BY <1>3, <2>4
      <4> QED
        BY <2>1, <3>1, <4>1, <4>2 DEF Gone
  <2> QED
    BY <2>2, <2>3, <2>4
<1>8. ASSUME NEW d \in Calls, NEW j \in Ids, NEW i \in DOMAIN wallets[j].notes,
             LockedBy(d, j, i)
      PROVE  \/ LockedBy(d, j, i)'
             \/ j = id /\ Commitment(wallets[j].notes[i]) \in M
  <2>1. CASE d # c
    BY <1>2, <1>3, <1>8, <2>1 DEF LockedBy, Running
  <2>2. CASE d = c /\ (Running(c)' \/ result'[c] = "error")
    BY <1>3, <1>8, <2>2 DEF LockedBy
  <2>3. CASE d = c /\ ~Running(c)' /\ result'[c] # "error"
    <3>1. PICK k \in DOMAIN inputs[c] : i = inputs[c][k]
      BY <1>8, <2>3 DEF LockedBy, Positions
    <3>2. Holds(c) /\ kind[c] \in Spends
      BY <1>1, <3>1 DEF HoldInv, Holds
    <3>3. j = id /\ Commitment(wallets[j].notes[i]) = spends[c][k]
      <4>1. Made(walletOf[c]) /\ j = walletOf[c]
        BY <1>2, <1>8, <2>3, <3>2 DEF Holds, LockedBy
      <4> QED
        BY <1>0, <3>1, <3>2, <4>1 DEF Holds, Wallet
    <3>4. todo[c][1] # "allowance" /\ todo[c][1] # "read"
      BY <1>5, <3>2 DEF Fits, Spends, Deposits
    <3>5. Advances(c)
      <4>1. Throws(c) => result'[c] = "error"
        BY <1>1 DEF Throws, TypeOK
      <4> QED
        BY <2>3, <4>1, AwaitsAdvance
    <3>6. Tail(todo[c]) = <<>> /\ result'[c] = "done"
      BY <1>1, <2>3, <3>4, <3>5 DEF Advances, Running, TypeOK
    <3>7. Settles(c)
      BY <1>5, <3>4, <3>6 DEF Last, Settles
    <3>8. spends[c][k] \in Shown(c)
      BY <3>1, <3>2 DEF Holds, Shown
    <3> QED
      BY <1>0, <3>3, <3>7, <3>8
  <2> QED
    BY <2>1, <2>2, <2>3
<1>9. \A d \in Calls : outcome'[d] = "ok" /\ kind'[d] # "bridge" =>
        Shown(d)' \subseteq nullifiers'[HookOf(d)']
  BY <1>3, <1>4 DEF MarkInv
<1>10. \A m \in M : Gone(id, m)'
  BY <1>0, <1>7
<1> QED
  BY <1>1, <1>6, <1>8, <1>9, <1>10, MarksFollow

LEMMA ExecutionAndMarks ==
    ASSUME MarkInv, HoldInv', NEW c \in Calls, Execute(c)
    PROVE  MarkInv'
<1>1. /\ HoldInv /\ TypeOK
      /\ UNCHANGED <<pageVars, wallets, status, todo, result, argVars, sent>>
      /\ \A h \in Hooks : nullifiers[h] \subseteq nullifiers'[h]
      /\ outcome[c] = "none" /\ \A d \in Calls \ {c} : outcome'[d] = outcome[d]
      /\ outcome'[c] = "ok" /\ kind[c] # "bridge" => Shown(c) \subseteq nullifiers'[HookOf(c)]
  BY Executed DEF MarkInv, HoldInv, Execute
<1>2. /\ UNCHANGED <<kind, walletOf, inputs, spends>>
      /\ \A d \in Calls : Shown(d)' = Shown(d) /\ HookOf(d)' = HookOf(d) /\ HookOf(d) \in Hooks
  BY <1>1 DEF argVars, Shown, HookOf, TypeOK, Ids
<1>3. ASSUME NEW d \in Calls, outcome'[d] = "ok", kind'[d] # "bridge"
      PROVE  Shown(d)' \subseteq nullifiers'[HookOf(d)']
  BY <1>1, <1>2, <1>3 DEF MarkInv
<1>4. ASSUME NEW j \in Ids, NEW m, Gone(j, m) PROVE Gone(j, m)'
  <2>1. j[2] \in Hooks
    BY DEF Ids
  <2>2. CASE m \in nullifiers[j[2]]
    BY <1>1, <2>1, <2>2 DEF Gone
  <2>3. CASE m \notin nullifiers[j[2]]
    <3>1. PICK d \in Calls : /\ walletOf[d] = j /\ result[d] = "done" /\ m \in Shown(d)
                             /\ kind[d] = "bridge" \/ outcome[d] = "failed"
      BY <1>4, <2>3 DEF Gone
    <3>2. j[2] = "solana"
      BY <1>4, <2>3 DEF Gone
    <3>3. kind[d] = "bridge" \/ outcome'[d] = "failed"
      BY <1>1, <3>1
    <3> QED
      BY <1>1, <1>2, <3>1, <3>2, <3>3 DEF Gone
  <2> QED
    BY <2>2, <2>3
<1>5. \A d \in Calls : \A j \in Ids : \A i : LockedBy(d, j, i) => LockedBy(d, j, i)'
  BY <1>1, <1>2 DEF LockedBy, Running
<1>6. PICK id \in Ids : WalletStep(id, {}, {})
  BY <1>1, StepOfNone DEF TypeOK
<1> QED
  BY <1>1, <1>3, <1>4, <1>5, <1>6, MarksFollow

\* A wallet that is made or dropped has no notes.
LEMMA MarksStay ==
    ASSUME MarkInv, HoldInv', UNCHANGED <<argVars, outcome, nullifiers>>,
           \A id \in Ids : \/ wallets'[id].notes = <<>>
                           \/ wallets'[id] = wallets[id] /\ UNCHANGED <<todo, result>>
    PROVE  MarkInv'
<1>1. /\ UNCHANGED <<kind, walletOf, inputs, spends, outcome, nullifiers>>
      /\ \A d \in Calls : Shown(d)' = Shown(d) /\ HookOf(d)' = HookOf(d)
  BY DEF argVars, Shown, HookOf
<1>2. ASSUME NEW id \in Ids, NEW i \in DOMAIN wallets'[id].notes
      PROVE  wallets'[id] = wallets[id] /\ UNCHANGED <<todo, result>>
  BY <1>2
<1>3. ASSUME UNCHANGED <<todo, result>>, NEW id \in Ids
      PROVE  /\ \A m : Gone(id, m) => Gone(id, m)'
             /\ \A i : \A c \in Calls : LockedBy(c, id, i) => LockedBy(c, id, i)'
  BY <1>1, <1>3 DEF Gone, LockedBy, Running
<1>4. ASSUME NEW id \in Ids, NEW i \in DOMAIN wallets'[id].notes
      PROVE  /\ wallets'[id].notes[i].spent => Gone(id, Commitment(wallets[id].notes[i]))'
             /\ wallets'[id].notes[i].pending => \E c \in Calls : LockedBy(c, id, i)'
  <2>1. wallets'[id] = wallets[id] /\ UNCHANGED <<todo, result>>
    BY <1>2
  <2>2. PICK m : m = Commitment(wallets[id].notes[i])
    OBVIOUS
  <2>3. wallets[id].notes[i].spent => Gone(id, m)'
    BY <1>3, <2>1, <2>2 DEF MarkInv
  <2>4. Commitment(wallets'[id].notes[i]) = m
    BY <2>1, <2>2
  <2>5. wallets'[id].notes[i].spent => Gone(id, Commitment(wallets[id].notes[i]))'
    BY <2>1, <2>3, <2>4 DEF Gone
  <2> QED
    BY <1>3, <2>1, <2>5 DEF MarkInv
<1> QED
  BY <1>1, <1>4 DEF MarkInv

LEMMA MarksKeep ==
    ASSUME MarkInv, [Next]_vars
    PROVE  MarkInv'
<1>1. HoldInv /\ TypeOK /\ HoldInv'
  BY HoldKeeps DEF MarkInv, HoldInv
<1>2. ASSUME NEW c \in Calls, NEW h \in Hooks, Call(c, h) PROVE MarkInv'
  BY <1>1, <1>2, CallsStart, CallsAndMarks
<1>3. ASSUME NEW c \in Calls, Proceed(c) PROVE MarkInv'
  BY <1>1, <1>3, AwaitsAndMarks
<1>4. ASSUME NEW c \in Calls, Execute(c) PROVE MarkInv'
  BY <1>1, <1>4, ExecutionAndMarks
<1>5. ASSUME NEW id \in Ids, WalletReady(id) PROVE MarkInv'
  <2>1. /\ wallets'[id].notes = <<>> /\ \A j \in Ids \ {id} : wallets'[j] = wallets[j]
    BY <1>1, <1>5, ReadyWallet
  <2>2. UNCHANGED <<todo, result, argVars, outcome, nullifiers>>
    BY <1>5 DEF WalletReady, chainVars
  <2> QED
    BY <1>1, <2>1, <2>2, MarksStay
<1>6. CASE \/ Navigate \/ (\E h \in Hooks : Reset(h)) \/ (\E c \in Calls : ApproveExecutes(c))
           \/ UNCHANGED vars
  <2>1. UNCHANGED <<wallets, todo, result, argVars, outcome, nullifiers>>
    BY <1>6 DEF Navigate, Mount, Reset, ApproveExecutes, vars, chainVars
  <2> QED
    BY <1>1, <2>1, MarksStay
<1>7. CASE Reload
  <2>1. \A id \in Ids : wallets'[id].notes = <<>>
    BY <1>7 DEF Reload, NewWallet
  <2>2. UNCHANGED <<argVars, outcome, nullifiers>>
    BY <1>7 DEF Reload, Mount, chainVars
  <2> QED
    BY <1>1, <2>1, <2>2, MarksStay
<1> QED
  BY <1>2, <1>3, <1>4, <1>5, <1>6, <1>7 DEF Next

\* MarksInv: whatever overlaps and whatever page is left, a note is marked spent
\* when its nullifier is on its chain, or the Solana hook marked it too early, and
\* is locked by a call that runs or has failed (the hooks' functions of
\* useSolanaHolanc.ts and useEvmHolanc.ts).
THEOREM AppMarks == Spec => []MarksInv
<1>1. Init => MarkInv
  <2> SUFFICES ASSUME Init PROVE MarkInv
    OBVIOUS
  <2>1. HoldInv
    BY FirstHolds
  <2>2. ASSUME NEW id \in Ids, NEW i \in DOMAIN wallets[id].notes
        PROVE  ~wallets[id].notes[i].spent /\ ~wallets[id].notes[i].pending
    <3>1. CASE FirstVisit
      BY <2>2, <3>1 DEF FirstVisit, NewWallet
    <3>2. CASE UsedPage
      <4>1. wallets[id] = UsedWallet \/ wallets[id] = NewWallet(None)
        BY <3>2 DEF UsedPage
      <4> QED
        BY <2>2, <4>1, UsedWalletTyped DEF NewWallet
    <3> QED
      BY <3>1, <3>2 DEF Init
  <2>3. \A c \in Calls : outcome[c] = "none"
    BY DEF Init
  <2> QED
    BY <2>1, <2>2, <2>3 DEF MarkInv
<1>2. MarkInv /\ [Next]_vars => MarkInv'
  BY MarksKeep
<1>3. MarkInv => MarksInv
  BY DEF MarkInv, HoldInv, MarksInv, SpentIsGone, LocksExplained, Gone, LockedBy
<1> QED
  BY <1>1, <1>2, <1>3, PTL DEF Spec

-----------------------------------------------------------------------------
(* Blindings.                                                              *)

\* The blindings that a wallet has taken.
Taken(w) == {<<w.key, j>> : j \in 0 .. w.nextBlinding - 1}

\* Those of the outputs are among them, while the wallet is there.
BlindInv ==
    /\ HoldInv
    /\ \A c \in Calls : kind[c] = "none" => outputs[c] = <<>>
    /\ \A c \in Calls : Made(walletOf[c]) =>
         \A k \in DOMAIN outputs[c] : outputs[c][k][3] \in Taken(Wallet(c))
    /\ BlindingsDistinctOnPage

\* The blinding that is taken next is a new one.
LEMMA NextIsNew ==
    ASSUME NEW w \in Wallets, NEW v \in Wallets, v.key = w.key, v.nextBlinding >= w.nextBlinding
    PROVE  /\ Taken(w) \subseteq Taken(v) /\ Blinding(w) \notin Taken(w)
           /\ v.nextBlinding = w.nextBlinding + 1 => Blinding(w) \in Taken(v)
<1>1. w.nextBlinding \in Nat /\ v.nextBlinding \in Nat
  BY WalletFields
<1>2. \A j \in 0 .. w.nextBlinding - 1 : j \in 0 .. v.nextBlinding - 1
  BY <1>1
<1>3. w.nextBlinding \notin 0 .. w.nextBlinding - 1
  BY <1>1
<1>4. v.nextBlinding = w.nextBlinding + 1 => w.nextBlinding \in 0 .. v.nextBlinding - 1
  BY <1>1
<1> QED
  BY <1>2, <1>3, <1>4 DEF Taken, Blinding

LEMMA BlindingsFollow ==
    ASSUME BlindInv, HoldInv', NEW c \in Calls, NEW id \in Ids, NEW P, NEW M, Made(id),
           WalletStep(id, P, M), OneMore(c, id), walletOf'[c] = id, kind'[c] # "none",
           walletOf[c] = id \/ outputs[c] = <<>>,
           \A d \in Calls \ {c} : walletOf'[d] = walletOf[d] /\ kind'[d] = kind[d]
    PROVE  BlindInv'
<1>1. /\ TypeOK /\ \A j \in Ids : wallets[j] \in Wallets /\ wallets'[j] \in Wallets
      /\ \A d \in Calls : walletOf[d] \in Ids
  <2>1. TypeOK
    BY DEF BlindInv, HoldInv
  <2>2. \A d \in Calls : walletOf[d] \in Ids
    BY <2>1, SMTT(20) DEF TypeOK
  <2>3. \A j \in Ids : wallets[j] \in Wallets
    BY <2>1, SMTT(20) DEF TypeOK
  <2>4. \A j \in Ids : wallets'[j] \in Wallets
    BY DEF WalletStep
  <2> QED
    BY <2>1, <2>2, <2>3, <2>4
<1>2. PICK n : \A k \in DOMAIN outputs'[c] :
         IF k = n
         THEN /\ outputs'[c][k][3] = Blinding(wallets[id])
              /\ wallets'[id].nextBlinding = wallets[id].nextBlinding + 1
         ELSE k \in DOMAIN outputs[c] /\ outputs'[c][k] = outputs[c][k]
  BY DEF OneMore
<1>3. \A j \in Ids : /\ wallets'[j].key = wallets[j].key
                     /\ Taken(wallets[j]) \subseteq Taken(wallets'[j])
  <2> SUFFICES ASSUME NEW j \in Ids
               PROVE  /\ wallets'[j].key = wallets[j].key
                      /\ Taken(wallets[j]) \subseteq Taken(wallets'[j])
    OBVIOUS
  <2>1. wallets'[j].key = wallets[j].key
    BY <1>1, WalletsFollow
  <2>2. CASE j = id
    BY <1>1, <2>1, <2>2, NextIsNew DEF OneMore
  <2>3. CASE j # id
    BY <2>3 DEF WalletStep
  <2> QED
    BY <2>1, <2>2, <2>3
<1>4. ASSUME NEW d \in Calls, NEW k \in DOMAIN outputs'[d], ~(d = c /\ k = n)
      PROVE  /\ k \in DOMAIN outputs[d] /\ outputs'[d][k] = outputs[d][k]
             /\ walletOf'[d] = walletOf[d]
  <2>1. CASE d = c
    <3>1. k \in DOMAIN outputs[c] /\ outputs'[c][k] = outputs[c][k]
      BY <1>2, <1>4, <2>1
    <3> QED
      BY <2>1, <3>1
  <2>2. CASE d # c
    BY <1>4, <2>2 DEF OneMore
  <2> QED
    BY <2>1, <2>2
<1>5. n \in DOMAIN outputs'[c] =>
        /\ outputs'[c][n][3] \in Taken(wallets'[id])
        /\ outputs'[c][n][3] \notin Taken(wallets[id])
  <2> SUFFICES ASSUME n \in DOMAIN outputs'[c]
               PROVE  /\ outputs'[c][n][3] \in Taken(wallets'[id])
                      /\ outputs'[c][n][3] \notin Taken(wallets[id])
    OBVIOUS
  <2>1. /\ outputs'[c][n][3] = Blinding(wallets[id])
        /\ wallets'[id].nextBlinding = wallets[id].nextBlinding + 1
    BY <1>2
  <2> QED
    BY <1>1, <1>3, <2>1, NextIsNew DEF OneMore
<1>6. ASSUME NEW d \in Calls, Made(walletOf[d])', NEW k \in DOMAIN outputs'[d]
      PROVE  outputs'[d][k][3] \in Taken(Wallet(d)')
  <2>1. CASE d = c /\ k = n
    BY <1>5, <2>1 DEF Wallet
  <2>2. CASE ~(d = c /\ k = n)
    <3>1. /\ k \in DOMAIN outputs[d] /\ outputs'[d][k] = outputs[d][k]
          /\ walletOf'[d] = walletOf[d]
      BY <1>4, <2>2
    <3>2. Made(walletOf[d])
      BY <1>1, <1>3, <1>6, <3>1 DEF Made
    <3>3. outputs[d][k][3] \in Taken(Wallet(d))
      BY <3>1, <3>2 DEF BlindInv
    <3> QED
      BY <1>1, <1>3, <3>1, <3>3 DEF Wallet
  <2> QED
    BY <2>1, <2>2
\* An entry that was there is none of the new one's.
<1>7. ASSUME NEW d \in Calls, NEW k \in DOMAIN outputs'[d], ~(d = c /\ k = n),
             n \in DOMAIN outputs'[c], outputs'[d][k][3] = outputs'[c][n][3]
      PROVE  walletOf'[d] # id
  <2>1. /\ k \in DOMAIN outputs[d] /\ outputs'[d][k] = outputs[d][k]
        /\ walletOf'[d] = walletOf[d]
    BY <1>4, <1>7
  <2> SUFFICES ASSUME walletOf[d] = id PROVE FALSE
    BY <2>1
  <2>2. outputs[d][k][3] \in Taken(wallets[id])
    BY <2>1 DEF BlindInv, Wallet
  <2> QED
    BY <1>5, <1>7, <2>1, <2>2
<1>8. ASSUME NEW d \in Calls, NEW e \in Calls, NEW k \in DOMAIN outputs'[d],
             NEW m \in DOMAIN outputs'[e], <<d, k>> # <<e, m>>,
             outputs'[d][k][3] = outputs'[e][m][3]
      PROVE  walletOf'[d] # walletOf'[e]
  <2>1. CASE d = c /\ k = n
    BY <1>7, <1>8, <2>1
  <2>2. CASE e = c /\ m = n
    BY <1>7, <1>8, <2>2
  <2>3. CASE ~(d = c /\ k = n) /\ ~(e = c /\ m = n)
    <3>1. /\ k \in DOMAIN outputs[d] /\ outputs'[d][k] = outputs[d][k]
          /\ walletOf'[d] = walletOf[d]
      BY <1>4, <2>3
    <3>2. /\ m \in DOMAIN outputs[e] /\ outputs'[e][m] = outputs[e][m]
          /\ walletOf'[e] = walletOf[e]
      BY <1>4, <2>3
    <3> QED
      BY <1>8, <3>1, <3>2 DEF BlindInv, BlindingsDistinctOnPage
  <2> QED
    BY <2>1, <2>2, <2>3
<1>9. \A d \in Calls : kind'[d] = "none" => outputs'[d] = <<>>
  BY DEF BlindInv, OneMore
<1> QED
  BY <1>6, <1>8, <1>9 DEF BlindInv, BlindingsDistinctOnPage

\* The outputs stay; a wallet that is made or dropped has no call.
LEMMA BlindingsStay ==
    ASSUME BlindInv, HoldInv', UNCHANGED argVars,
           \A c \in Calls : \/ kind[c] = "none" \/ wallets'[walletOf[c]] = Wallet(c)
                            \/ wallets'[walletOf[c]].key = None
    PROVE  BlindInv'
<1>1. UNCHANGED <<kind, walletOf, outputs>>
  BY DEF argVars
<1>2. ASSUME NEW c \in Calls, Made(walletOf[c])', NEW k \in DOMAIN outputs[c]
      PROVE  outputs'[c][k][3] \in Taken(Wallet(c)')
  <2>1. kind[c] # "none" /\ wallets'[walletOf[c]].key # None
    BY <1>1, <1>2 DEF BlindInv, Made
  <2>2. wallets'[walletOf[c]] = Wallet(c)
    BY <2>1
  <2> QED
    BY <1>1, <1>2, <2>1, <2>2 DEF BlindInv, Made, Wallet
<1> QED
  BY <1>1, <1>2 DEF BlindInv, BlindingsDistinctOnPage

LEMMA BlindingsKeep ==
    ASSUME BlindInv, [Next]_vars
    PROVE  BlindInv'
<1>1. HoldInv /\ TypeOK /\ CallInv /\ HoldInv'
  BY HoldKeeps DEF BlindInv, HoldInv
<1>2. ASSUME NEW c \in Calls, NEW h \in Hooks, Call(c, h) PROVE BlindInv'
  <2>1. Starts(c, h)
    BY <1>1, <1>2, CallsStart
  <2>2. PICK id, P : id = <<page, h>> /\ P = Positions(inputs'[c])
    OBVIOUS
  <2>3. /\ kind[c] = "none" /\ id \notin loading /\ WalletStep(id, P, {}) /\ OneMore(c, id)
        /\ walletOf' = [walletOf EXCEPT ![c] = id]
        /\ \A d \in Calls \ {c} : kind'[d] = kind[d]
    BY <2>1, <2>2 DEF Starts
  <2>4. id \in Ids /\ Made(id)
    BY <1>1, <2>2, <2>3, Uncalled
  <2>5. outputs[c] = <<>>
    BY <2>3 DEF BlindInv
  <2>6. kind'[c] # "none"
    <3>1. \E k \in Functions : kind' = [kind EXCEPT ![c] = k]
      BY <1>2, CallsBeginOrEnd DEF Begin, Refused
    <3> QED
      BY <1>1, <3>1 DEF TypeOK, Functions
  <2>7. walletOf'[c] = id /\ \A d \in Calls \ {c} : walletOf'[d] = walletOf[d]
    BY <1>1, <2>3 DEF TypeOK
  <2> QED
    BY <1>1, <2>3, <2>4, <2>5, <2>6, <2>7, BlindingsFollow
<1>3. ASSUME NEW c \in Calls, Proceed(c) PROVE BlindInv'
  <2>1. Effect(c) /\ Running(c)
    BY <1>1, <1>3, AwaitEffects, AwaitsLeave
  <2>2. PICK id, M : id = walletOf[c] /\ M = IF Settles(c) THEN Shown(c) ELSE {}
    OBVIOUS
  <2>3. /\ id \in Ids /\ WalletStep(id, {}, M) /\ OneMore(c, id)
        /\ UNCHANGED <<kind, walletOf>>
    BY <1>1, <2>1, <2>2 DEF Effect, TypeOK
  <2>4. kind[c] # "none" /\ Made(id)
    BY <1>1, <2>1, <2>2 DEF CallInv, Underway, Functions, HoldInv, Holds
  <2> QED
    BY <1>1, <2>2, <2>3, <2>4, BlindingsFollow
<1>4. ASSUME NEW c \in Calls, Execute(c) PROVE BlindInv'
  BY <1>1, <1>4, BlindingsStay DEF Execute, Wallet
<1>5. ASSUME NEW id \in Ids, WalletReady(id) PROVE BlindInv'
  <2>1. id \in loading /\ UNCHANGED argVars
        /\ \A j \in Ids \ {id} : wallets'[j] = wallets[j]
    BY <1>1, <1>5, ReadyWallet DEF WalletReady
  <2>2. \A c \in Calls : kind[c] = "none" \/ wallets'[walletOf[c]] = Wallet(c)
    BY <1>1, <2>1 DEF HoldInv, Holds, TypeOK, Wallet
  <2> QED
    BY <1>1, <2>1, <2>2, BlindingsStay
<1>6. CASE \/ Navigate \/ (\E h \in Hooks : Reset(h)) \/ (\E c \in Calls : ApproveExecutes(c))
           \/ UNCHANGED vars
  <2>1. UNCHANGED <<wallets, argVars>>
    BY <1>6 DEF Navigate, Mount, Reset, ApproveExecutes, vars
  <2> QED
    BY <1>1, <2>1, BlindingsStay DEF Wallet
<1>7. CASE Reload
  <2>1. \A id \in Ids : wallets'[id].key = None
    BY <1>7 DEF Reload, NewWallet
  <2>2. UNCHANGED argVars /\ \A c \in Calls : walletOf[c] \in Ids
    BY <1>1, <1>7 DEF Reload, Mount, TypeOK
  <2> QED
    BY <1>1, <2>1, <2>2, BlindingsStay
<1> QED
  BY <1>2, <1>3, <1>4, <1>5, <1>6, <1>7 DEF Next

\* BlindingsDistinctOnPage: however the calls of a page overlap, two outputs of its
\* wallet never share a blinding (deriveBlinding() of wallet.ts moves the counter
\* before it awaits).
THEOREM AppBlindingsDistinctOnPage == Spec => []BlindingsDistinctOnPage
<1>1. Init => BlindInv
  <2> SUFFICES ASSUME Init PROVE BlindInv
    OBVIOUS
  <2>1. HoldInv
    BY FirstHolds
  <2>2. \A c \in Calls : outputs[c] = <<>>
    BY DEF Init
  <2> QED
    BY <2>1, <2>2 DEF BlindInv, BlindingsDistinctOnPage
<1>2. BlindInv /\ [Next]_vars => BlindInv'
  BY BlindingsKeep
<1>3. BlindInv => BlindingsDistinctOnPage
  BY DEF BlindInv
<1> QED
  BY <1>1, <1>2, <1>3, PTL DEF Spec

=============================================================================
