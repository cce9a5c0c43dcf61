------------------------------- MODULE Ideal -------------------------------
(***************************************************************************)
(* What the secret-sharing protocols promise: a program over secrets is    *)
(* computed as if one trusted machine held them.  A product appears at     *)
(* once, and a result is revealed to one party at a time, only after the   *)
(* secrets it is computed from are there.                                  *)
(*                                                                         *)
(* An instruction is [op, dst, x, y]; inputs are the registers that no     *)
(* instruction writes.                                                     *)
(***************************************************************************)
EXTENDS Integers, Sequences

CONSTANTS Product(_, _),    \* the product of two secrets
          Parties,
          Unknown           \* a register without a value

VARIABLES
    program,
    val,                \* val[r]: the secret in register r
    out                 \* out[p][r]: what party p has been shown

ivars == <<program, val, out>>

Multiply(i) ==
    LET s == program[i] IN
    /\ s.op = "mult"
    /\ val[s.dst] = Unknown /\ val[s.x] # Unknown /\ val[s.y] # Unknown
    /\ val' = [val EXCEPT ![s.dst] = Product(val[s.x], val[s.y])]
    /\ UNCHANGED <<program, out>>

Reveal(p, i) ==
    LET s == program[i] IN
    /\ s.op \in {"open", "multpub"}
    /\ out[p][s.dst] = Unknown /\ val[s.x] # Unknown /\ val[s.y] # Unknown
    /\ out' = [out EXCEPT ![p][s.dst] =
                  IF s.op = "open" THEN val[s.x] ELSE Product(val[s.x], val[s.y])]
    /\ UNCHANGED <<program, val>>

Init ==
    /\ \A r \in DOMAIN val :
          val[r] = Unknown <=> \E i \in DOMAIN program : program[i].dst = r
    /\ \A p \in Parties, r \in DOMAIN val : out[p][r] = Unknown

Next == \E i \in DOMAIN program : Multiply(i) \/ \E p \in Parties : Reveal(p, i)

Spec == Init /\ [][Next]_ivars
=============================================================================
