------------------------------- MODULE Publishers -------------------------------
(***************************************************************************)
(* PublisherVerifier (src/tollbooth/publisher_verifier.ts): publishers     *)
(* prove that a domain is theirs by showing, in its DNS or on its page,    *)
(* their address or a token they were given.                               *)
(*                                                                         *)
(* There is one domain, whose owner shows what it likes when it likes.  A  *)
(* check looks its token up, waits for the DNS or for the page, and then   *)
(* records the publisher; checks of several publishers overlap.            *)
(*                                                                         *)
(* Abstracted: the texts that proofs are searched in.  expiresAt is left   *)
(* out as the code never reads it.                                         *)
(***************************************************************************)
EXTENDS Naturals

CONSTANTS
  PublisherAddresses,
  Prefixes,   \* <<p, q>>: the address q begins with p
  Checks,
  MaxTokens   \* bound: challenges a publisher asks for

Nobody == "nobody"

ASSUME PublishersAssumption ==
  /\ Nobody \notin PublisherAddresses
  /\ Prefixes \subseteq PublisherAddresses \X PublisherAddresses
  /\ \A p \in PublisherAddresses : <<p, p>> \in Prefixes
  /\ MaxTokens \in Nat

VARIABLES
  token,     \* token[p]: challenges.get(domain:p), the last one given, or 0
  shown,     \* shown[w]: the proof to be found at w, or Nothing
  ever,      \* all proofs the domain has shown
  check,     \* check[k]: [at: what it waits for, or its end; of; auto; expected;
             \* heard]
  verified   \* the publisher in verifiedDomains, or Nobody

pvars == <<token, shown, ever, check, verified>>

Address == 0                    \* shown in place of a token
Proofs == [by : PublisherAddresses, token : 0 .. MaxTokens]
Nothing == [by |-> Nobody, token |-> 0]
Places == {"dns", "page"}
Verifying == Places \X {"asked", "heard"}

PubTypeOK ==
  /\ token \in [PublisherAddresses -> 0 .. MaxTokens]
  /\ shown \in [Places -> Proofs \cup {Nothing}]
  /\ ever \subseteq Proofs
  /\ check \in [Checks -> [at : Verifying \cup {<<"new">>, <<"verified">>, <<"refused">>},
                           of : PublisherAddresses \cup {Nobody}, auto : BOOLEAN,
                           expected : 0 .. MaxTokens, heard : Proofs \cup {Nothing}]]
  /\ verified \in PublisherAddresses \cup {Nobody}

\* A check that is not under way.
Idle(at) == [at |-> <<at>>, of |-> Nobody, auto |-> FALSE, expected |-> 0,
             heard |-> Nothing]

PubInit ==
  /\ token = [p \in PublisherAddresses |-> 0]
  /\ shown = [w \in Places |-> Nothing]
  /\ ever = {}
  /\ check = [k \in Checks |-> Idle("new")]
  /\ verified = Nobody

-----------------------------------------------------------------------------

\* POST .../publishers/challenge: a new token takes the place of the last one.
CreateChallenge(p) ==
  /\ token[p] < MaxTokens
  /\ token' = [token EXCEPT ![p] = @ + 1]
  /\ UNCHANGED <<shown, ever, check, verified>>

\* The owner of the domain shows an address, or a token that was given out.
Show(w, proof) ==
  /\ proof.token <= token[proof.by]
  /\ shown' = [shown EXCEPT ![w] = proof]
  /\ ever' = ever \cup {proof}
  /\ UNCHANGED <<token, check, verified>>

\* A lookup of the DNS or of the page is begun, with the token of this moment.
Ask(k, w, p, auto) ==
  check' = [check EXCEPT ![k] = [at |-> <<w, "asked">>, of |-> p, auto |-> auto,
                                 expected |-> token[p], heard |-> Nothing]]

\* POST .../publishers/verify: by DNS, by page, or by both in this order.
VerifyDomain(k, p) ==
  /\ check[k].at = <<"new">>
  /\ \/ \E w \in Places : Ask(k, w, p, FALSE)
     \/ Ask(k, "dns", p, TRUE)
  /\ UNCHANGED <<token, shown, ever, verified>>

\* What is shown there, or nothing when that fails.
Reads(k, w) ==
  /\ check[k].at = <<w, "asked">>
  /\ \E h \in {shown[w], Nothing} :
       check' = [check EXCEPT ![k].at = <<w, "heard">>, ![k].heard = h]
  /\ UNCHANGED <<token, shown, ever, verified>>

\* A TXT record is searched for x402-publisher=<address>, and what follows is not
\* looked at; in a page the address stands in quotes.
ShowsAddress(c, w) ==
  /\ c.heard.token = Address
  /\ IF w = "dns" THEN <<c.of, c.heard.by>> \in Prefixes ELSE c.of = c.heard.by

\* mutant: the challenge of the domain is looked up, whoever asked for it.
ProvesForAnyone(c, w) ==
  ShowsAddress(c, w) \/ (c.expected # 0 /\ c.heard.token = c.expected)

\* The publisher's address, or the token it was given.
Proves(c, w) ==
  \/ ShowsAddress(c, w)
  \/ c.expected # 0 /\ c.heard = [by |-> c.of, token |-> c.expected]

\* The text is searched: the last check to find its proof is what is recorded.
Searched(k, w) ==
  /\ check[k].at = <<w, "heard">>
  /\ \/ /\ Proves(check[k], w)
        /\ verified' = check[k].of
        /\ check' = [check EXCEPT ![k] = Idle("verified")]
     \/ /\ ~Proves(check[k], w)
        /\ IF w = "dns" /\ check[k].auto THEN Ask(k, "page", check[k].of, FALSE)
           ELSE check' = [check EXCEPT ![k] = Idle("refused")]
        /\ UNCHANGED verified
  /\ UNCHANGED <<token, shown, ever>>

PubNext ==
  \/ \E p \in PublisherAddresses : CreateChallenge(p)
  \/ \E w \in Places, proof \in Proofs : Show(w, proof)
  \/ \E k \in Checks, p \in PublisherAddresses : VerifyDomain(k, p)
  \/ \E k \in Checks, w \in Places : Reads(k, w) \/ Searched(k, w)

-----------------------------------------------------------------------------

\* Whoever counts as the publisher of the domain has been shown there, by a token
\* that was given to it and to no other or by an address that begins with its own,
\* whatever checks and challenges of others have come in between.  Addresses are
\* not validated (tollbooth_server.ts:261-266), so what is recorded may be the
\* beginning of an address that was shown.
PublishersProved ==
  verified # Nobody =>
    \E proof \in ever :
      \/ proof.by = verified
      \/ proof.token = Address /\ <<verified, proof.by>> \in Prefixes
=============================================================================
