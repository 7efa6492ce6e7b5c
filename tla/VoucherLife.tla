----------------------------- MODULE VoucherLife -----------------------------
(***************************************************************************)
(* What a posting engine promises, whatever its policies, channels, limits *)
(* and tables: a voucher is entered once, its effect on the balances is    *)
(* fixed then and enters them once, in full, when as many people as it     *)
(* needs have signed it, none of them its maker; it may be refused instead,*)
(* and undone once, by a voucher with the opposite effect.  Ledger is      *)
(* shown to implement it.                                                  *)
(***************************************************************************)
EXTENDS Integers

CONSTANTS Voucher, User, Account

VARIABLES
    life,      \* [Voucher -> "none", "waiting", "posted" or "refused"]
    maker,     \* [Voucher -> who entered it]
    missing,   \* [Voucher -> signatures it still takes]
    effect,    \* [Voucher -> [Account -> what it adds to the balance]]
    signed,    \* [Voucher -> who signed it]
    undone,    \* the vouchers that were reversed
    balance    \* [Account -> Int]

vars == <<life, maker, missing, effect, signed, undone, balance>>

Init ==
    /\ life = [v \in Voucher |-> "none"]
    /\ signed = [v \in Voucher |-> {}]
    /\ undone = {}

\* Only voucher v gets a new value, whatever it is.
Sets(f, g, v) == g = [f EXCEPT ![v] = g[v]]

\* The whole effect e, on every account.
Apply(e) == balance' = [a \in Account |-> balance[a] + e[a]]

\* One that needs no signature is posted as it is entered.
Enter(v) ==
    /\ life[v] = "none"
    /\ Sets(maker, maker', v) /\ Sets(missing, missing', v) /\ Sets(effect, effect', v)
    /\ UNCHANGED signed
    /\ \/ /\ missing'[v] = 0
          /\ life' = [life EXCEPT ![v] = "posted"]
          /\ Apply(effect'[v])
       \/ /\ missing'[v] > 0
          /\ life' = [life EXCEPT ![v] = "waiting"]
          /\ UNCHANGED balance

New(v) == Enter(v) /\ UNCHANGED undone

Judges(v, u) == life[v] = "waiting" /\ u # maker[v] /\ u \notin signed[v]

Sign(v, u) ==
    /\ Judges(v, u)
    /\ signed' = [signed EXCEPT ![v] = signed[v] \cup {u}]
    /\ missing' = [missing EXCEPT ![v] = missing[v] - 1]
    /\ UNCHANGED <<maker, effect, undone>>
    /\ \/ /\ missing'[v] = 0
          /\ life' = [life EXCEPT ![v] = "posted"]
          /\ Apply(effect[v])
       \/ /\ missing'[v] > 0
          /\ UNCHANGED <<life, balance>>

Refuse(v, u) ==
    /\ Judges(v, u)
    /\ life' = [life EXCEPT ![v] = "refused"]
    /\ UNCHANGED <<maker, missing, effect, signed, undone, balance>>

\* w undoes v, at once or when it is signed; v is marked now.
Undo(v, w) ==
    /\ life[v] = "posted" /\ v \notin undone
    /\ undone' = undone \cup {v}
    /\ Enter(w)
    /\ effect'[w] = [a \in Account |-> -effect[v][a]]

Next == \E v \in Voucher : \/ New(v)
                           \/ \E u \in User : Sign(v, u) \/ Refuse(v, u)
                           \/ \E w \in Voucher : Undo(v, w)

Spec == Init /\ [][Next]_vars
=============================================================================
