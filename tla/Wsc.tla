-------------------------------- MODULE Wsc --------------------------------
(***************************************************************************)
(* The WSC component: wsc.py, wsc_messages.py and wsc_radio.py of          *)
(* src/emosa.  An M1 transcript, the M2 payloads that answer it, and what  *)
(* decode_radio_payloads makes of any few payloads that arrive.            *)
(*                                                                         *)
(* A payload is a sequence of attributes, each a kind with a value; `cut`  *)
(* says that its last attribute is incomplete.  Cryptography is symbolic:  *)
(* a key is what it is derived from, a tag is its key with what it covers, *)
(* a ciphertext is its key with its plaintext.  The registrar and the      *)
(* network are external; the network loses, repeats, reorders, mixes and   *)
(* damages payloads.                                                       *)
(***************************************************************************)
EXTENDS Integers, Sequences, FiniteSets, SequencesExt

CONSTANTS
  Plans,        \* what a registrar may answer: sequences of Bss
  Advertised,   \* the M1's authentication and encryption types fit the candidate
  Noise,        \* what no sender ever wrote
  MaxBss,       \* max_bss of the caller
  MaxExchanges, \* bound: transcripts, one after the other
  MaxAnswers,   \* bound: answers of the registrar
  MaxDamages    \* bound: payloads that the network damages

None == 0       \* no BSS index
Flag == {"fronthaul", "backhaul", "station", "teardown", "restricted"}

\* One payload's meaning: its role flags (the reserved bits are dropped), where the
\* role is written and how often, whether there are AP settings, whether they have
\* every required field, and whether they are WPA2-PSK with a passphrase that can
\* be mapped.
Bss == [role: SUBSET Flag, inside: 0..2, outside: BOOLEAN, index: 0..2,
        settings: {"none", "incomplete", "other", "psk"}]

ASSUME WscAssumption ==
  /\ Plans \subseteq Seq(Bss) /\ <<>> \notin Plans
  /\ Advertised \in BOOLEAN
  /\ MaxBss \in 1..16
  /\ MaxExchanges \in Nat \ {0} /\ {MaxAnswers, MaxDamages} \subseteq Nat

VARIABLES
  exchange,  \* the current M1Transcript, by the number of its nonce and key pair
  sent,      \* the payloads on the network
  meant,     \* the answers that were made: what they answer, their plan, their payloads
  result,    \* what was decoded, and from which payloads
  damages    \* count for the bound

vars == <<exchange, sent, meant, result, damages>>

-----------------------------------------------------------------------------
(***************************************************************************)
(* Attributes, keys, tags.                                                 *)
(***************************************************************************)

At(k, v) == [k |-> k, v |-> v]
Payload(attributes) == [body |-> attributes, cut |-> FALSE]

\* decode_attributes: the structure, nothing else.
Decodes(p) == ~p.cut

Has(body, k) == \E i \in 1..Len(body) : body[i].k = k
Times(body, k) == Cardinality({i \in 1..Len(body) : body[i].k = k})
Value(body, k) == body[CHOOSE i \in 1..Len(body) : body[i].k = k].v

\* Diffie-Hellman: both sides get the same from their own pair and the other's.
Derive(one, other, enonce, rnonce) == <<{one, other}, enonce, rnonce>>
Tag(keys, data) == <<keys, data>>

\* The trailer: the last attribute, and only the last.
Trailed(body, k) == body # <<>> /\ Last(body).k = k /\ Times(body, k) = 1

Authenticate(keys, previous, body) ==
  Append(body, At("authenticator", Tag(keys, <<previous, body>>)))

Verifies(keys, previous, body) ==
  /\ Trailed(body, "authenticator")
  /\ Last(body).v = Tag(keys, <<previous, Front(body)>>)

Encrypt(keys, plain) ==
  [keys |-> keys, text |-> Append(plain, At("kwa", Tag(keys, plain)))]

\* Padding, structure and key wrap authenticator, or nothing.
Decrypts(keys, cipher) ==
  /\ cipher # Noise /\ cipher.keys = keys
  /\ Trailed(cipher.text, "kwa") /\ Last(cipher.text).v = Tag(keys, Front(cipher.text))

-----------------------------------------------------------------------------
(***************************************************************************)
(* M1 and M2.                                                              *)
(***************************************************************************)

\* M1Transcript.create: a fresh nonce and a fresh key pair.
M1(e) ==
  <<At("type", 4), At("enonce", e), At("pubkey", <<"enrollee", e>>),
    At("types", Advertised), At("vendor", "version2")>>

Required == {"type", "enonce", "rnonce", "pubkey", "authenticator"}

\* _message: required fields once, the type, the place of the BSS index.
WellFormedM2(body) ==
  /\ \A k \in Required : Times(body, k) = 1
  /\ \A k \in {"index", "encrypted"} : Times(body, k) <= 1
  /\ Value(body, "type") = 5
  /\ Has(body, "index") => Len(body) >= 2 /\ body[Len(body) - 1].k = "index"

\* Of whom an answer's payload i is: answers have key pairs, payloads have nonces.
Nonce(a, i) == <<a, i>>

Role(b) == [i \in 1..b.inside |-> At("role", b.role)]

ConfigData(b) ==
  Role(b) \o (CASE b.settings = "incomplete" -> <<At("ssid", "x")>>
                [] b.settings = "none" -> <<>>
                [] OTHER -> <<At("ssid", "x"), At("security", b.settings)>>)

\* The registrar's answer a to the M1 of exchange e, one payload for each BSS.
M2(e, a, b, i) ==
  LET keys == Derive(<<"registrar", a>>, <<"enrollee", e>>, e, Nonce(a, i))
      body == <<At("type", 5), At("enonce", e), At("rnonce", Nonce(a, i)),
                At("pubkey", <<"registrar", a>>)>>
              \o (IF b.outside THEN <<At("role", b.role)>> ELSE <<>>)
              \o (IF b.settings = "none" /\ b.inside = 0 THEN <<>>
                  ELSE <<At("encrypted", Encrypt(keys, ConfigData(b)))>>)
              \o (IF b.index = None THEN <<>> ELSE <<At("index", b.index)>>)
  IN  Payload(Authenticate(keys, M1(e), body))

\* Fault: what was decrypted needs no authenticator.
AuthenticUnverified(e, p) ==
  LET b == p.body
      keys == Derive(<<"enrollee", e>>, Value(b, "pubkey"), e, Value(b, "rnonce"))
  IN  /\ Decodes(p) /\ WellFormedM2(b)
      /\ Value(b, "enonce") = e
      /\ Has(b, "encrypted") /\ Decrypts(keys, Value(b, "encrypted"))

\* authenticate_m2_envelope, with the transcript of exchange e, has a result ...
Authentic(e, p) ==
  LET b == p.body
      keys == Derive(<<"enrollee", e>>, Value(b, "pubkey"), e, Value(b, "rnonce"))
  IN  /\ Decodes(p) /\ WellFormedM2(b)
      /\ Value(b, "enonce") = e
      /\ Verifies(keys, M1(e), b)
      /\ Has(b, "encrypted") /\ Decrypts(keys, Value(b, "encrypted"))

\* ... and which.
Envelope(p) ==
  [rnonce |-> Value(p.body, "rnonce"),
   index |-> IF Has(p.body, "index") THEN Value(p.body, "index") ELSE None,
   data |-> Front(Value(p.body, "encrypted").text), outer |-> p.body]

\* Fault: two payloads without an index have the same one.
DistinctIndexed(es) == IsInjective([i \in 1..Len(es) |-> es[i].rnonce])
                       /\ IsInjective([i \in 1..Len(es) |-> es[i].index])

\* One nonce and, where there is one, one index for each payload of the set.
Distinct(es) ==
  /\ IsInjective([i \in 1..Len(es) |-> es[i].rnonce])
  /\ \A i, j \in 1..Len(es) : i # j /\ es[i].index = es[j].index => es[i].index = None

Envelopes(payloads) == [i \in 1..Len(payloads) |-> Envelope(payloads[i])]

\* authenticate_m2_envelopes: all of them, or none.
Accepted(e, payloads) ==
  /\ Len(payloads) \in 1..MaxBss
  /\ \A i \in 1..Len(payloads) : Authentic(e, payloads[i])
  /\ Distinct(Envelopes(payloads))

-----------------------------------------------------------------------------
(***************************************************************************)
(* A radio's payload set.                                                  *)
(***************************************************************************)

Refused == [action |-> "refused", bsses |-> <<>>]

\* The role is inside the encryption, once, and nowhere else.
RoleInside(envelope) == ~Has(envelope.outer, "role") /\ Times(envelope.data, "role") = 1

\* APSettings.parse: every required field is there.
Parses(data) == Has(data, "ssid") /\ Has(data, "security")

\* decode_radio_payloads.
RadioPayloadSet(e, payloads) ==
  LET es == Envelopes(payloads)
      roles == [i \in 1..Len(es) |-> Value(es[i].data, "role")]
  IN  IF ~Accepted(e, payloads) THEN Refused
      ELSE IF \E i \in 1..Len(es) : ~RoleInside(es[i])
           THEN Refused
      ELSE IF \E i \in 1..Len(es) : "teardown" \in roles[i]
           THEN IF Len(es) = 1 THEN [action |-> "teardown", bsses |-> <<>>] ELSE Refused
      ELSE IF \E i \in 1..Len(es) : ~Parses(es[i].data)
           THEN Refused
      ELSE [action |-> "configure",
            bsses |-> [i \in 1..Len(es) |->
              [role |-> roles[i], index |-> es[i].index,
               settings |-> Value(es[i].data, "security")]]]

\* existing_fronthaul_candidate: whether there is one.
Candidate(r) ==
  /\ r.action = "configure" /\ Len(r.bsses) = 1
  /\ r.bsses[1].role = {"fronthaul"} /\ r.bsses[1].settings = "psk" /\ Advertised

-----------------------------------------------------------------------------
(***************************************************************************)
(* Exchanges.                                                              *)
(***************************************************************************)

Init ==
  /\ exchange = 1 /\ sent = {} /\ meant = <<>> /\ damages = 0
  /\ result = [from |-> <<>>, set |-> Refused, candidate |-> FALSE]

TypeOK ==
  /\ exchange \in 1..MaxExchanges /\ damages \in 0..MaxDamages
  /\ Len(meant) <= MaxAnswers
  /\ \A a \in DOMAIN meant : meant[a].to \in 1..exchange /\ meant[a].plan \in Plans
  /\ \A p \in sent : p.cut \in BOOLEAN /\ \A i \in 1..Len(p.body) : DOMAIN p.body[i] = {"k", "v"}
  /\ result.set.action \in {"refused", "teardown", "configure"} /\ result.candidate \in BOOLEAN

\* The component is used for another exchange; what is under way stays so.
Create ==
  /\ exchange < MaxExchanges
  /\ exchange' = exchange + 1
  /\ UNCHANGED <<sent, meant, result, damages>>

\* The registrar answers the M1 of any exchange that has begun.
Respond ==
  /\ Len(meant) < MaxAnswers
  /\ \E e \in 1..exchange, plan \in Plans :
       LET a == Len(meant) + 1
           payloads == [i \in 1..Len(plan) |-> M2(e, a, plan[i], i)]
       IN  /\ meant' = Append(meant, [to |-> e, plan |-> plan, payloads |-> payloads])
           /\ sent' = sent \cup {payloads[i] : i \in 1..Len(plan)}
  /\ UNCHANGED <<exchange, result, damages>>

\* A payload loses its end, inside an attribute or between two, or arrives with one
\* attribute that is not what was sent.
Damaged(p) ==
  {[body |-> SubSeq(p.body, 1, n), cut |-> c] : n \in 1..(Len(p.body) - 1), c \in BOOLEAN}
  \cup {[body |-> [p.body EXCEPT ![i] = At(@.k, Noise)], cut |-> p.cut] : i \in 1..Len(p.body)}

Damage ==
  /\ damages < MaxDamages
  /\ \E p \in sent : \E q \in Damaged(p) : sent' = (sent \ {p}) \cup {q}
  /\ damages' = damages + 1
  /\ UNCHANGED <<exchange, meant, result>>

\* Any few of the payloads, in any order.  The component keeps nothing of a call, so
\* a behaviour ends with the first.
Decode ==
  /\ \E n \in 1..MaxBss + 1 : \E payloads \in [1..n -> sent] :
       LET set == RadioPayloadSet(exchange, payloads)
       IN  result' = [from |-> payloads, set |-> set, candidate |-> Candidate(set)]
  /\ UNCHANGED <<exchange, sent, meant, damages>>

Next == result.from = <<>> /\ (Create \/ Respond \/ Damage \/ Decode)

Spec == Init /\ [][Next]_vars

-----------------------------------------------------------------------------
(***************************************************************************)
(* What must hold.                                                         *)
(***************************************************************************)

\* The BSS that the registrar meant by a payload of an answer to the current M1.
Sources(p) ==
  {ai \in UNION {{a} \X DOMAIN meant[a].plan : a \in DOMAIN meant} :
     meant[ai[1]].to = exchange /\ meant[ai[1]].payloads[ai[2]] = p}
Means(p, b) == \E ai \in Sources(p) : meant[ai[1]].plan[ai[2]] = b

\* "Return the entire checked payload set, or raise without returning any
\* settings" (wsc_messages.py): a result stands for payloads that are, each of
\* them, a different undamaged payload that the registrar made for this very M1;
\* it has what the registrar meant by them, in their order; and a teardown is never
\* found among configurations or elsewhere than under encryption.  There is a
\* candidate for the existing BSS only for a set of one payload, by which the
\* registrar meant a fronthaul and nothing else.  (That its answer had no other
\* payload is beyond the component: see the README.)
ResultIsMeant ==
  /\ TypeOK
  /\ result.set.action # "refused" =>
       /\ IsInjective(result.from)
       /\ \A i \in DOMAIN result.from : Sources(result.from[i]) # {}
       /\ IF result.set.action = "teardown"
          THEN \A i \in DOMAIN result.from : \E b \in Bss :
                 Means(result.from[i], b) /\ "teardown" \in b.role
          ELSE /\ Len(result.set.bsses) = Len(result.from)
               /\ \A i \in DOMAIN result.from : \E b \in Bss :
                    /\ Means(result.from[i], b) /\ ~b.outside
                    /\ result.set.bsses[i] = [role |-> b.role, index |-> b.index,
                                              settings |-> b.settings]
  /\ result.candidate =>
       /\ Len(result.from) = 1
       /\ \E b \in Bss :
            Means(result.from[1], b) /\ b.role = {"fronthaul"} /\ b.settings = "psk"

\* What the peer may legitimately answer: ordinary configurations with distinct
\* indexes, where they have any, within the radio's limit; or one teardown.
Legitimate(plan) ==
  /\ Len(plan) <= MaxBss
  /\ \A i \in DOMAIN plan : plan[i].inside = 1 /\ ~plan[i].outside
  /\ \A i, j \in DOMAIN plan : i # j /\ plan[i].index = plan[j].index => plan[i].index = None
  /\ \/ Len(plan) = 1 /\ "teardown" \in plan[1].role
     \/ \A i \in DOMAIN plan : "teardown" \notin plan[i].role /\ plan[i].settings \in {"other", "psk"}

\* A legitimate answer to the current M1 that arrives whole, in any order, is
\* accepted: teardown needs no settings, indexes are optional.
WholeIsAccepted ==
  \A a \in DOMAIN meant :
    /\ meant[a].to = exchange /\ Legitimate(meant[a].plan)
    /\ Len(result.from) = Len(meant[a].plan) /\ ToSet(result.from) = ToSet(meant[a].payloads)
    => result.set.action # "refused"
=============================================================================
