----------------------------- MODULE ChainLedger -----------------------------
(***************************************************************************)
(* What Blockchain promises the rest of the node, forgetting how it keeps  *)
(* it: a set of accepted blocks that only grows, each valid and connected, *)
(* one of which, the heaviest, is the peak; and the set of unspent coins,  *)
(* which is determined by the peak alone.                                  *)
(***************************************************************************)
EXTENDS BlockTree

VARIABLES
    known,    \* the accepted blocks
    peak,     \* the block the ledger stands at
    unspent   \* the coins that can be spent

ledgerVars == <<known, peak, unspent>>

(* The coins created and not spent on the chain that ends in b.            *)
UnspentAt(b) ==
    IF b = NoBlock THEN {}
    ELSE {c \in Coins : /\ CreatedBelow(b, HeightOf[b] + 1, c)
                        /\ ~ SpentBelow(b, HeightOf[b] + 1, c)}

LedgerInit ==
    known = {} /\ peak = NoBlock /\ unspent = {}

(* b is accepted; it becomes the peak if it is heavier than the peak.      *)
Accept(b) ==
    /\ b \notin known
    /\ HeightOf[b] = 0 \/ Parent[b] \in known
    /\ ChainValid(b)
    /\ known' = known \cup {b}
    /\ peak' = IF peak = NoBlock \/ Weight[b] > Weight[peak] THEN b ELSE peak
    /\ unspent' = UnspentAt(peak')

LedgerNext == \E b \in Blocks : Accept(b)

LedgerSpec == LedgerInit /\ [][LedgerNext]_ledgerVars
==============================================================================
