----------------------------- MODULE Validation -----------------------------
(***************************************************************************)
(* What the Plugin lets in: its configuration, when the host resolves its  *)
(* plan, and then the requests it serves under it.                         *)
(*                                                                         *)
(* A text is abstracted to its name, its length in bytes, in characters    *)
(* and in what trim() leaves of them, and the class of its characters; a   *)
(* host to its labels; a revision to sign, leading zeros and digits; a     *)
(* credential_json to its bytes.                                           *)
(***************************************************************************)
EXTENDS Integers, Sequences, FiniteSets

CONSTANTS
  Configs, Requests,
  MaxRevision,  \* the greatest i64
  MaxTaken,     \* bound: requests a run looks at together
  None

VARIABLES
  config,       \* the configuration of the instance
  verdict,      \* "unchecked", "valid" or the error
  taken         \* the requests that were accepted

vars == <<config, verdict, taken>>

-----------------------------------------------------------------------------
\* The requests of the six operations

BeginAuthenticationRequest == {"idempotency_key", "subject"}

BeginRegistrationRequest ==
  {"display_name", "expected_revision", "idempotency_key", "subject", "user_name"}

FinishAuthenticationRequest == {"challenge_id", "credential_bytes", "idempotency_key"}

FinishRegistrationRequest ==
  {"challenge_id", "credential_bytes", "expected_revision", "idempotency_key", "label",
   "subject"}

ListPasskeysRequest == {"include_revoked", "subject"}

RevokePasskeyRequest == {"expected_revision", "idempotency_key", "passkey_id", "subject"}

Fields ==
  [begin_authentication  |-> BeginAuthenticationRequest,
   begin_registration    |-> BeginRegistrationRequest,
   finish_authentication |-> FinishAuthenticationRequest,
   finish_registration   |-> FinishRegistrationRequest,
   list_passkeys         |-> ListPasskeysRequest,
   revoke_passkey        |-> RevokePasskeyRequest]

\* The columns of the tables that take a text of a request.
StoredTexts == {"caller", "idempotency_key", "subject", "label"}

\* UTF-8: a character takes one to four bytes; trim() leaves trimmed characters.
IsText(text) ==
  /\ text.bytes \in Nat /\ text.chars \in Nat /\ text.trimmed \in 0..text.chars
  /\ text.chars <= text.bytes /\ text.bytes <= 4 * text.chars

\* A request has the fields of its operation, and comes from a caller.
ASSUME RequestsAssumption ==
  /\ MaxRevision \in Nat
  /\ \A r \in Requests :
       /\ r = [field \in DOMAIN r |-> r[field]]
       /\ r.operation \in DOMAIN Fields
       /\ DOMAIN r = {"operation", "caller"} \cup Fields[r.operation]
       /\ \A field \in StoredTexts \cap DOMAIN r : IsText(r[field])

\* An entry of allowed_origins, as far as the parser tells entries apart.
OriginEntries ==
  [parses : BOOLEAN, scheme : STRING, host : {None} \cup Seq(STRING),
   port : {"absent", "default", "other"}, path : {"", "/", "other"},
   userinfo : BOOLEAN, query : BOOLEAN, fragment : BOOLEAN]

ASSUME ConfigsAssumption ==
  \A c \in Configs : c.origins \in Seq(OriginEntries) /\ c.rp_id \in Seq(STRING)

-----------------------------------------------------------------------------
\* Texts

\* ASCII letters, digits, - _ . and :
ValidToken(text, max) ==
  text.bytes \in 1..max /\ text.class = "token"

ValidHumanName(text, max) ==
  text.trimmed > 0 /\ text.bytes <= max /\ text.class # "control"

SecretReference(text) == ValidToken(text, 256)

ValidAuthoritySet(values, max) ==
  /\ Len(values) \in 1..64
  /\ \A i \in DOMAIN values : ValidToken(values[i], max)
  /\ \A i, j \in DOMAIN values : values[i] = values[j] => i = j

-----------------------------------------------------------------------------
\* Origins

\* What Url::parse makes of an entry: a default port is dropped, an empty path is /,
\* and as_str is the whole of it.
Url(entry) ==
  [entry EXCEPT !.port = IF @ = "default" THEN "absent" ELSE @,
                !.path = IF @ = "" THEN "/" ELSE @]

Localhost == <<"localhost">>

\* domain == rp_id || domain.ends_with("." + rp_id)
Within(host, rp_id) ==
  \/ host = rp_id
  \/ /\ Len(host) > Len(rp_id)
     /\ SubSeq(host, Len(host) - Len(rp_id) + 1, Len(host)) = rp_id

ValidOrigin(url, rp_id) ==
  /\ url.parses /\ url.host # None
  /\ \/ url.scheme = "https"
     \/ url.host = Localhost /\ url.scheme = "http"
  /\ url.host = Localhost \/ url.port = "absent"
  /\ ~url.userinfo /\ url.path = "/" /\ ~url.query /\ ~url.fragment
  /\ Within(url.host, rp_id)

\* Mutant of ValidOrigins: duplicates are looked for before the entries are parsed.
ValidOriginsAsWritten(origins, rp_id) ==
  /\ \A i \in DOMAIN origins : ValidOrigin(Url(origins[i]), rp_id)
  /\ \A i, j \in DOMAIN origins : origins[i] = origins[j] => i = j

ValidOrigins(origins, rp_id) ==
  /\ \A i \in DOMAIN origins : ValidOrigin(Url(origins[i]), rp_id)
  /\ \A i, j \in DOMAIN origins : Url(origins[i]) = Url(origins[j]) => i = j

-----------------------------------------------------------------------------
\* PasskeyAuthConfig::validate: the first fault names the error

Day == 86400  \* in seconds

ValidLimits(c) ==
  /\ c.challenge_ttl \in 60..900
  /\ c.session_ttl \in 1..30 * Day
  /\ c.receipt_ttl \in 300..7 * Day
  /\ c.receipt_ttl > c.challenge_ttl
  /\ c.max_passkeys \in 1..64

Verdict(c) ==
  IF ~c.schema_ok THEN "invalid_schema"
  ELSE IF ~(/\ SecretReference(c.database_secret) /\ SecretReference(c.encryption_secret)
            /\ c.database_secret # c.encryption_secret) THEN "invalid_secret_references"
  ELSE IF ~(ValidToken(c.issuer, 128) /\ c.key_ok) THEN "invalid_auth_authority"
  ELSE IF ~(/\ c.rp_bytes \in 1..253
            /\ c.rp_name.trimmed > 0 /\ c.rp_name.bytes <= 128
            /\ Len(c.origins) \in 1..16) THEN "invalid_relying_party"
  ELSE IF ~ValidOrigins(c.origins, c.rp_id) THEN "invalid_origin"
  ELSE IF ~c.builder_ok THEN "invalid_relying_party"
  ELSE IF ~(/\ ValidAuthoritySet(c.management_callers, 128)
            /\ ValidAuthoritySet(c.authentication_callers, 128)
            /\ ValidAuthoritySet(c.audience, 256)) THEN "invalid_authority_set"
  ELSE IF ~ValidLimits(c) THEN "invalid_limits"
  ELSE "valid"

-----------------------------------------------------------------------------
\* Requests

Format(n) == [sign |-> IF n < 0 THEN "-" ELSE "", zeros |-> 0, digits |-> IF n < 0 THEN -n ELSE n]

Parse(text) ==
  LET n == IF text.sign = "-" THEN -text.digits ELSE text.digits IN
    IF n \in -(MaxRevision + 1)..MaxRevision THEN n ELSE None

\* Mutant of ParseRevision: whatever parses.
ParseRevisionLoosely(text) ==
  IF Parse(text) # None /\ Parse(text) >= 0 THEN Parse(text) ELSE None

\* parse::<i64>() takes a plus sign and leading zeros; the comparison does not.
ParseRevision(text) ==
  LET n == Parse(text) IN
    IF n # None /\ n >= 0 /\ Format(n) = text THEN n ELSE None

ValidSubject(text) == ValidToken(text, 256)
ValidKey(text) == ValidToken(text, 128)

\* Mutant of ValidFinishRegistration: a label as long as the names of begin_registration.
ValidFinishRegistrationOfLongLabel(r) ==
  /\ ParseRevision(r.expected_revision) # None
  /\ ValidKey(r.idempotency_key) /\ ValidToken(r.challenge_id, 128)
  /\ ValidSubject(r.subject) /\ ValidHumanName(r.label, 256)
  /\ r.credential_bytes <= 65536

ValidBeginRegistration(r) ==
  /\ ParseRevision(r.expected_revision) # None
  /\ ValidKey(r.idempotency_key) /\ ValidSubject(r.subject)
  /\ ValidHumanName(r.user_name, 256) /\ ValidHumanName(r.display_name, 256)

ValidFinishRegistration(r) ==
  /\ ParseRevision(r.expected_revision) # None
  /\ ValidKey(r.idempotency_key) /\ ValidToken(r.challenge_id, 128)
  /\ ValidSubject(r.subject) /\ ValidHumanName(r.label, 128)
  /\ r.credential_bytes <= 65536

ValidBeginAuthentication(r) == ValidSubject(r.subject) /\ ValidKey(r.idempotency_key)

ValidFinishAuthentication(r) ==
  /\ ValidKey(r.idempotency_key) /\ ValidToken(r.challenge_id, 128)
  /\ r.credential_bytes <= 65536

ValidRevoke(r) ==
  /\ ParseRevision(r.expected_revision) # None
  /\ ValidKey(r.idempotency_key) /\ ValidSubject(r.subject)
  /\ ValidToken(r.passkey_id, 128)

ValidRequest(r) ==
  \/ r.operation = "begin_registration" /\ ValidBeginRegistration(r)
  \/ r.operation = "finish_registration" /\ ValidFinishRegistration(r)
  \/ r.operation = "begin_authentication" /\ ValidBeginAuthentication(r)
  \/ r.operation = "finish_authentication" /\ ValidFinishAuthentication(r)
  \/ r.operation = "list_passkeys" /\ ValidSubject(r.subject)
  \/ r.operation = "revoke_passkey" /\ ValidRevoke(r)

-----------------------------------------------------------------------------
Init == config \in Configs /\ verdict = "unchecked" /\ taken = {}

\* validate_config
ValidateConfig ==
  /\ verdict = "unchecked"
  /\ verdict' = Verdict(config)
  /\ UNCHANGED <<config, taken>>

AllowedCallers(operation) ==
  IF operation \in {"begin_authentication", "finish_authentication"}
  THEN config.authentication_callers ELSE config.management_callers

\* A handler checks its caller and its request before it does anything else.
AcceptRequest(r) ==
  /\ verdict = "valid"
  /\ Cardinality(taken) < MaxTaken
  /\ \E i \in DOMAIN AllowedCallers(r.operation) : r.caller = AllowedCallers(r.operation)[i]
  /\ ValidRequest(r)
  /\ taken' = taken \cup {r}
  /\ UNCHANGED <<config, verdict>>

Next == ValidateConfig \/ \E r \in Requests : AcceptRequest(r)

Spec == Init /\ [][Next]_vars
-----------------------------------------------------------------------------
\* The origin a browser reports for a page at an entry.
BrowserOrigin(entry) ==
  <<entry.scheme, entry.host, IF entry.port = "other" THEN "other" ELSE "default">>

\* A configuration that is served under names each origin once and nothing that no
\* browser would report as an origin; each is one at which the relying party may
\* ask for a passkey, over a transport nobody else can write to.
OriginsAreDistinctAndOwn ==
  verdict = "valid" =>
    /\ Cardinality({BrowserOrigin(config.origins[i]) : i \in DOMAIN config.origins})
         = Len(config.origins)
    /\ \A i \in DOMAIN config.origins :
         LET origin == BrowserOrigin(config.origins[i]) IN
           /\ \E n \in 0..Len(origin[2]) : SubSeq(origin[2], n + 1, Len(origin[2])) = config.rp_id
           /\ origin[1] = "http" => origin[2] = Localhost
           /\ origin[3] = "other" => origin[2] = Localhost

\* Each CHECK of the migration on a text that comes with a request.
FitsColumn(length, max) == length \in 1..max

\* No request that is accepted can fail on a CHECK of the tables, after its key has
\* been claimed: the caller, the key, the subject and what is stored of the label,
\* which is trimmed first, fit their columns.
AcceptedRequestsFitTheTables ==
  \A r \in taken :
    /\ FitsColumn(r.caller.chars, 128)
    /\ "idempotency_key" \in DOMAIN r => FitsColumn(r.idempotency_key.chars, 128)
    /\ "subject" \in DOMAIN r => FitsColumn(r.subject.chars, 256)
    /\ "label" \in DOMAIN r => FitsColumn(r.label.trimmed, 128)
    /\ "expected_revision" \in DOMAIN r => Parse(r.expected_revision) \in 0..MaxRevision

\* A revision has one text in the requests that are accepted, of whatever operation,
\* so the hash of an intent never depends on how the number was written: a client
\* that writes it otherwise in a retry is refused at once, and not told that its key
\* is in conflict.
OneSpellingPerRevision ==
  \A r1, r2 \in {r \in taken : "expected_revision" \in DOMAIN r} :
    Parse(r1.expected_revision) = Parse(r2.expected_revision) =>
      r1.expected_revision = r2.expected_revision
=============================================================================
