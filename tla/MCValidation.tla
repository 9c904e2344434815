---------------------------- MODULE MCValidation ----------------------------
(***************************************************************************)
(* Small instances of Validation: configurations and requests that depart  *)
(* from an acceptable one in a field at a time, at the boundaries of each  *)
(* rule, and all pairs of origins.                                         *)
(***************************************************************************)
EXTENDS Validation, TLC

Text(name, bytes, class) ==
  [name |-> name, bytes |-> bytes, chars |-> bytes, trimmed |-> bytes, class |-> class]

Token(name) == Text(name, 5, "token")

\* Two bytes for each character.
Accented(bytes) ==
  [Text("a", bytes, "printable") EXCEPT !.chars = bytes \div 2, !.trimmed = bytes \div 2]

\* Blanks around so many characters.
Padded(bytes, trimmed) == [Text("a", bytes, "printable") EXCEPT !.trimmed = trimmed]

Texts ==
  {Text("a", n, "token") : n \in {0, 1, 128, 129, 256, 257}}
    \cup {Text("a", 128, class) : class \in {"printable", "control"}}
    \cup {Accented(128), Accented(256), Padded(128, 0), Padded(128, 1), Padded(129, 128)}

Entry(scheme, host, port, path) ==
  [parses |-> TRUE, scheme |-> scheme, host |-> host, port |-> port, path |-> path,
   userinfo |-> FALSE, query |-> FALSE, fragment |-> FALSE]

Hosts ==
  {<<"example", "com">>, <<"login", "example", "com">>, <<"badexample", "com">>,
   Localhost, None}

Plain == Entry("https", <<"example", "com">>, "absent", "")

Entries ==
  {Entry(scheme, host, port, path) :
     scheme \in {"https", "http"}, host \in Hosts,
     port \in {"absent", "default", "other"}, path \in {"", "/", "other"}}
    \cup {[Plain EXCEPT !.parses = FALSE], [Plain EXCEPT !.userinfo = TRUE],
          [Plain EXCEPT !.query = TRUE], [Plain EXCEPT !.fragment = TRUE]}

Good ==
  [schema_ok |-> TRUE, database_secret |-> Token("db"), encryption_secret |-> Token("key"),
   issuer |-> Token("auth"), key_ok |-> TRUE,
   rp_id |-> <<"example", "com">>, rp_bytes |-> 11, rp_name |-> Token("rp"),
   origins |-> <<Plain>>, builder_ok |-> TRUE,
   management_callers |-> <<Token("gateway")>>, authentication_callers |-> <<Token("gateway")>>,
   audience |-> <<Token("api")>>,
   challenge_ttl |-> 300, session_ttl |-> 3600, receipt_ttl |-> 600, max_passkeys |-> 8]

OriginConfigs ==
  {[Good EXCEPT !.origins = <<e1, e2>>, !.rp_id = rp] :
     e1, e2 \in Entries, rp \in {<<"example", "com">>, Localhost}}
    \cup {[Good EXCEPT !.origins = <<e>>] : e \in Entries}
    \cup {[Good EXCEPT !.origins = <<>>], [Good EXCEPT !.builder_ok = FALSE]}

LimitConfigs ==
  {[Good EXCEPT !.challenge_ttl = n] : n \in {59, 60, 900, 901}}
    \cup {[Good EXCEPT !.receipt_ttl = n] : n \in {299, 300, 301, 604801}}
    \cup {[Good EXCEPT !.session_ttl = n] : n \in {0, 2592001}}
    \cup {[Good EXCEPT !.max_passkeys = n] : n \in {0, 65}}

Lists == {<<>>} \cup {<<t>> : t \in Texts} \cup {<<Token("web"), Token("web")>>, <<Token("web"), Token("app")>>}

AuthorityConfigs ==
  {[Good EXCEPT !.management_callers = l] : l \in Lists}
    \cup {[Good EXCEPT !.authentication_callers = l] : l \in Lists}
    \cup {[Good EXCEPT !.audience = l] : l \in Lists}
    \cup {[Good EXCEPT !.database_secret = t] : t \in Texts \cup {Token("key")}}
    \cup {[Good EXCEPT !.issuer = t] : t \in Texts}
    \cup {[Good EXCEPT !.rp_name = t] : t \in Texts}
    \cup {[Good EXCEPT !.schema_ok = FALSE], [Good EXCEPT !.key_ok = FALSE],
          [Good EXCEPT !.rp_bytes = 254]}


-----------------------------------------------------------------------------
Revisions ==
  {[sign |-> sign, zeros |-> zeros, digits |-> digits] :
     sign \in {"", "+", "-"}, zeros \in 0..1, digits \in 0..(MaxRevision + 1)}

One == Format(1)

BeginRegistration ==
  [operation |-> "begin_registration", caller |-> Token("web"), idempotency_key |-> Token("k"),
   subject |-> Token("s"), user_name |-> Token("u"), display_name |-> Token("d"),
   expected_revision |-> One]

FinishRegistration ==
  [operation |-> "finish_registration", caller |-> Token("web"), idempotency_key |-> Token("k"),
   subject |-> Token("s"), challenge_id |-> Token("x"), label |-> Token("l"),
   credential_bytes |-> 65536, expected_revision |-> One]

BeginAuthentication ==
  [operation |-> "begin_authentication", caller |-> Token("web"),
   idempotency_key |-> Token("k"), subject |-> Token("s")]

FinishAuthentication ==
  [operation |-> "finish_authentication", caller |-> Token("web"),
   idempotency_key |-> Token("k"), challenge_id |-> Token("x"), credential_bytes |-> 65536]

ListPasskeys ==
  [operation |-> "list_passkeys", caller |-> Token("web"), subject |-> Token("s"),
   include_revoked |-> FALSE]

RevokePasskey ==
  [operation |-> "revoke_passkey", caller |-> Token("web"), idempotency_key |-> Token("k"),
   subject |-> Token("s"), passkey_id |-> Token("p"), expected_revision |-> One]

\* A request with another value in one field.
Departures(r) ==
  {[r EXCEPT ![field] = text] :
     field \in DOMAIN r \ {"operation", "expected_revision", "credential_bytes",
                                 "include_revoked"}, text \in Texts}
    \cup (IF "expected_revision" \in DOMAIN r
          THEN {[r EXCEPT !["expected_revision"] = revision] : revision \in Revisions} ELSE {})
    \cup (IF "credential_bytes" \in DOMAIN r
          THEN {[r EXCEPT !["credential_bytes"] = 65537]} ELSE {})

AllRequests ==
  UNION {{r} \cup Departures(r) :
           r \in {BeginRegistration, FinishRegistration, BeginAuthentication,
                  FinishAuthentication, ListPasskeys, RevokePasskey}}

\* Configurations under which some of these requests come from an allowed caller.
ServedConfigs ==
  {[Good EXCEPT !.management_callers = <<Token("web"), t>>] : t \in {Token("app")} \cup Texts}
    \cup {[Good EXCEPT !.authentication_callers = <<t>>] : t \in Texts \cup {Token("web")}}

AllConfigs == OriginConfigs \cup LimitConfigs \cup AuthorityConfigs \cup ServedConfigs
=============================================================================
