--------------------------- MODULE PaymentVerifier ---------------------------
(***************************************************************************)
(* The decision of VerifierService.verify (src/services/verifier.ts) about *)
(* a payment, with the transfers of src/utils/data_parser.ts.              *)
(*                                                                         *)
(* A payment is a record that keeps what the checks tell apart; amounts,   *)
(* addresses, signatures and gas figures are abstracted to the outcome of  *)
(* the comparison the code makes with them.  sim is the answer of the      *)
(* network to the simulation, "off" when the verifier has no provider.     *)
(***************************************************************************)
EXTENDS Naturals, FiniteSets, Sequences

\* What a payment may be: `accepted` repeats the requirements ("match"), other
\* ones, or is absent; `data` is the transaction's data field.
Payment ==
  [accepted : {"match", "other", "absent"},
   chain    : BOOLEAN,                        \* chainID of the network asked for
   gas      : {"bounded", "dear", "heavy", "malformed"}, \* price and limit
   window   : {"open", "expired", "early"},   \* validBefore and validAfter
   value    : BOOLEAN,                        \* moves EGLD as well
   data     : {"empty", "transfer", "encoded", "call"}, \* a pure transfer, its
                                              \* base64 text, or something else
   asset    : BOOLEAN, receiver : BOOLEAN, funded : BOOLEAN, \* as required
   signed   : BOOLEAN,                        \* by the sender, over these bytes
   guardian : {"none", "signed", "unsigned", "forged"},
   relayer  : {"none", "shard", "other"},     \* a relayer of the payer's shard?
   cosigned : {"none", "good", "bad"}]

Simulations == {"off", "ok", "funds", "stale", "rejected", "unreachable"}

Valid == "valid"
Invalid == "PAYMENT_INVALID"
Expired == "PAYMENT_EXPIRED"
Unfunded == "PAYMENT_UNFUNDED"
Stale == "PAYMENT_BLOCKHASH_STALE"
Thrown == "thrown"    \* verify() rejects: it reads `accepted` unconditionally

Verdicts == {Valid, Invalid, Expired, Unfunded, Stale, Thrown}

-----------------------------------------------------------------------------

Parsed(type, p) == [type |-> type, asset |-> p.asset, receiver |-> p.receiver]

\* The transfers of the transaction: a payment that moves EGLD carries no data,
\* and whatever has more parts than a pure transfer yields none at all.  Base64
\* text is decoded first, though the text itself is what is signed and sent.  The
\* asset asked for is a token, never EGLD.
Transfers(p) ==
  IF p.value
  THEN IF p.data = "empty" THEN {[type |-> "EGLD", asset |-> FALSE, receiver |-> p.receiver]}
       ELSE {}
  ELSE IF p.data \in {"transfer", "encoded"} THEN {Parsed("ESDT", p)} ELSE {}

\* The gas limit is bounded only where a relayer pays for the gas.
GasWithinBounds(p) ==
  p.gas = "bounded" \/ (p.gas = "heavy" /\ p.relayer = "none")

TransferVerdict(p) ==
  IF ~\E t \in Transfers(p) : t.asset THEN Invalid
  ELSE IF ~\E t \in Transfers(p) : t.asset /\ t.receiver THEN Invalid
  ELSE IF ~p.funded THEN Unfunded
  ELSE Valid

\* mutant: only the guardian's signature is verified.
GuardianSigned(p) == p.guardian \in {"none", "signed"}

WellSigned(p) == p.signed /\ p.guardian \in {"none", "signed"}

\* Without a pool the relayer is not looked up, and a signature it has not
\* made yet is not asked for.
RelayerAccepted(p, hasPool) ==
  p.relayer # "none" =>
    /\ hasPool => p.relayer = "shard"
    /\ p.cosigned # "bad"

SimulationVerdict(sim) ==
  CASE sim \in {"off", "ok"} -> Valid
    [] sim = "funds" -> Unfunded
    [] sim = "stale" -> Stale
    [] sim \in {"rejected", "unreachable"} -> Invalid

\* verify(): the first check that objects decides.
Verdict(p, hasPool, sim) ==
  IF p.accepted = "absent" THEN Thrown
  ELSE IF p.accepted = "other" \/ ~p.chain \/ ~GasWithinBounds(p) THEN Invalid
  ELSE IF p.window = "expired" THEN Expired
  ELSE IF p.window = "early" THEN Invalid
  ELSE IF TransferVerdict(p) # Valid THEN TransferVerdict(p)
  ELSE IF ~WellSigned(p) \/ ~RelayerAccepted(p, hasPool) THEN Invalid
  ELSE SimulationVerdict(sim)

\* What the caller of verify() relies on: a valid payment moves the amount asked
\* for to the merchant and nothing else, now, with the payer's consent.
Pays(p) ==
  /\ p.accepted = "match" /\ p.chain /\ p.window = "open"
  /\ ~p.value /\ p.data = "transfer" /\ p.asset /\ p.receiver /\ p.funded
  /\ p.signed

\* The payment as data_parser.ts reads it.
Decoded(p) == [p EXCEPT !.data = IF @ = "encoded" THEN "transfer" ELSE @]
=============================================================================
