--------------------------- MODULE ValidationProofs ---------------------------
(***************************************************************************)
(* What a configuration that is served under, and the requests accepted    *)
(* under it, can be relied on for: any number of origins, callers and      *)
(* requests, of any length.                                                *)
(***************************************************************************)
EXTENDS Validation, FiniteSetTheorems, SequenceTheorems, TLAPS

\* A request that a handler has let in under the configuration.
Accepted(r) ==
  /\ r \in Requests /\ ValidRequest(r)
  /\ \E i \in DOMAIN AllowedCallers(r.operation) : r.caller = AllowedCallers(r.operation)[i]

ValidationInv ==
  /\ config \in Configs
  /\ verdict = "valid" => Verdict(config) = "valid"
  /\ taken # {} => verdict = "valid"
  /\ \A r \in taken : Accepted(r)

LEMMA InitValidation == Init => ValidationInv
  BY DEF Init, ValidationInv

LEMMA NextValidation == ValidationInv /\ [Next]_vars => ValidationInv'
  <1> SUFFICES ASSUME ValidationInv, [Next]_vars PROVE ValidationInv' OBVIOUS
  <1> USE DEF ValidationInv
  <1>1. config' = config BY DEF Next, vars, ValidateConfig, AcceptRequest
  <1>2. \A r : Accepted(r)' <=> Accepted(r) BY <1>1 DEF Accepted, AllowedCallers
  <1>3. CASE ValidateConfig BY <1>1, <1>2, <1>3 DEF ValidateConfig
  <1>4. ASSUME NEW r \in Requests, AcceptRequest(r) PROVE ValidationInv'
    BY <1>1, <1>2, <1>4 DEF AcceptRequest, Accepted
  <1>5. CASE UNCHANGED vars BY <1>1, <1>2, <1>5 DEF vars
  <1> QED BY <1>3, <1>4, <1>5 DEF Next

-----------------------------------------------------------------------------
\* What the configuration is found to satisfy

LEMMA ServedConfig ==
  ASSUME ValidationInv, verdict = "valid"
  PROVE  /\ ValidOrigins(config.origins, config.rp_id)
         /\ ValidAuthoritySet(config.management_callers, 128)
         /\ ValidAuthoritySet(config.authentication_callers, 128)
  BY DEF ValidationInv, Verdict

-----------------------------------------------------------------------------
\* Origins

\* What is left to choose in a valid origin is what a browser reports of it.
LEMMA OneUrlPerOrigin ==
  ASSUME NEW e1 \in OriginEntries, NEW e2 \in OriginEntries, NEW rp_id,
         ValidOrigin(Url(e1), rp_id), ValidOrigin(Url(e2), rp_id),
         BrowserOrigin(e1) = BrowserOrigin(e2)
  PROVE  Url(e1) = Url(e2)
  <1>1. /\ e1.scheme = e2.scheme /\ e1.host = e2.host
        /\ e1.port = "other" <=> e2.port = "other"
    BY DEF BrowserOrigin
  <1>2. ASSUME NEW e \in OriginEntries
        PROVE  /\ Url(e) \in OriginEntries
               /\ Url(e).scheme = e.scheme /\ Url(e).host = e.host
               /\ Url(e).port = IF e.port = "other" THEN "other" ELSE "absent"
    <2> DEFINE port == IF e.port = "default" THEN "absent" ELSE e.port
               path == IF e.path = "" THEN "/" ELSE e.path
    <2>1. /\ port \in {"absent", "default", "other"} /\ path \in {"", "/", "other"}
          /\ port = IF e.port = "other" THEN "other" ELSE "absent"
      BY DEF OriginEntries
    <2>2. ASSUME NEW p PROVE [e EXCEPT !.port = p].path = e.path BY DEF OriginEntries
    <2>3. Url(e) = [e EXCEPT !.port = port, !.path = path] BY <2>2, Zenon DEF Url
    <2> HIDE DEF port, path
    <2> QED BY <2>1, <2>3 DEF OriginEntries
  <1>3. ASSUME NEW url, ValidOrigin(url, rp_id)
        PROVE  /\ url.parses /\ url.path = "/"
               /\ ~url.userinfo /\ ~url.query /\ ~url.fragment
    BY <1>3 DEF ValidOrigin
  <1>4. ASSUME NEW u1 \in OriginEntries, NEW u2 \in OriginEntries,
               u1.parses <=> u2.parses, u1.scheme = u2.scheme, u1.host = u2.host,
               u1.port = u2.port, u1.path = u2.path, u1.userinfo <=> u2.userinfo,
               u1.query <=> u2.query, u1.fragment <=> u2.fragment
        PROVE  u1 = u2
    <2>1. /\ u1.parses = u2.parses /\ u1.userinfo = u2.userinfo
          /\ u1.query = u2.query /\ u1.fragment = u2.fragment
      BY <1>4 DEF OriginEntries
    <2>2. ASSUME NEW u \in OriginEntries
          PROVE  u = [parses |-> u.parses, scheme |-> u.scheme, host |-> u.host,
                      port |-> u.port, path |-> u.path, userinfo |-> u.userinfo,
                      query |-> u.query, fragment |-> u.fragment]
      BY DEF OriginEntries
    <2> QED BY <1>4, <2>1, <2>2, Zenon
  <1> QED BY <1>1, <1>2, <1>3, <1>4

\* A host within the domain of the relying party ends with its labels.
LEMMA OwnHost ==
  ASSUME NEW host \in Seq(STRING), NEW rp_id \in Seq(STRING), Within(host, rp_id)
  PROVE  \E n \in 0..Len(host) : SubSeq(host, n + 1, Len(host)) = rp_id
  <1>1. CASE host = rp_id
    <2>1. SubSeq(host, 0 + 1, Len(host)) = host BY SubSeqFull
    <2> QED BY <1>1, <2>1
  <1>2. CASE /\ Len(host) > Len(rp_id)
             /\ SubSeq(host, Len(host) - Len(rp_id) + 1, Len(host)) = rp_id
    <2>1. Len(host) - Len(rp_id) \in 0..Len(host) BY <1>2
    <2> QED BY <1>2, <2>1
  <1> QED BY <1>1, <1>2 DEF Within

\* A valid origin lies in the relying party's domain; only localhost does without
\* https or with a port of its own.
LEMMA OwnOrigin ==
  ASSUME NEW e \in OriginEntries, NEW rp_id \in Seq(STRING), ValidOrigin(Url(e), rp_id)
  PROVE  LET origin == BrowserOrigin(e) IN
           /\ \E n \in 0..Len(origin[2]) : SubSeq(origin[2], n + 1, Len(origin[2])) = rp_id
           /\ origin[1] = "http" => origin[2] = Localhost
           /\ origin[3] = "other" => origin[2] = Localhost
  <1>1. /\ Url(e).host = e.host /\ Url(e).scheme = e.scheme
        /\ e.port = "other" => Url(e).port = "other"
    BY DEF OriginEntries, Url
  <1>2. /\ e.host \in Seq(STRING) /\ Within(e.host, rp_id)
        /\ e.scheme = "https" \/ e.host = Localhost
        /\ e.host = Localhost \/ e.port # "other"
    BY <1>1 DEF OriginEntries, ValidOrigin
  <1>3. \E n \in 0..Len(e.host) : SubSeq(e.host, n + 1, Len(e.host)) = rp_id
    BY <1>2, OwnHost
  <1>4. /\ BrowserOrigin(e)[1] = e.scheme /\ BrowserOrigin(e)[2] = e.host
        /\ BrowserOrigin(e)[3] = "other" => e.port = "other"
    BY DEF BrowserOrigin
  <1> QED BY <1>2, <1>3, <1>4

\* Values that differ wherever their positions do are as many as the positions.
LEMMA DistinctValues ==
  ASSUME NEW n \in Nat, NEW values, NEW f \in [1..n -> values],
         \A i, j \in 1..n : f[i] = f[j] => i = j,
         \A v \in values : \E i \in 1..n : f[i] = v
  PROVE  Cardinality(values) = n
  <1>1. f \in Bijection(1..n, values)
    BY DEF Bijection, Injection, Surjection, IsInjective
  <1>2. ExistsBijection(1..n, values) BY <1>1 DEF ExistsBijection
  <1> QED BY <1>2, FS_CountingElements

\* A configuration that is served under names every origin once, and only origins of
\* the relying party.
THEOREM OriginsAreOwn == Spec => []OriginsAreDistinctAndOwn
  <1>1. ASSUME ValidationInv PROVE OriginsAreDistinctAndOwn
    <2> DEFINE origins == config.origins
               named == {BrowserOrigin(origins[i]) : i \in DOMAIN origins}
    <2> SUFFICES ASSUME verdict = "valid"
                 PROVE  /\ Cardinality(named) = Len(origins)
                        /\ \A i \in DOMAIN origins :
                             LET o == BrowserOrigin(origins[i]) IN
                               /\ \E n \in 0..Len(o[2]) :
                                    SubSeq(o[2], n + 1, Len(o[2])) = config.rp_id
                               /\ o[1] = "http" => o[2] = Localhost
                               /\ o[3] = "other" => o[2] = Localhost
      BY DEF OriginsAreDistinctAndOwn
    <2>1. origins \in Seq(OriginEntries) /\ config.rp_id \in Seq(STRING)
      BY <1>1, ConfigsAssumption DEF ValidationInv
    <2>2. /\ DOMAIN origins = 1..Len(origins) /\ Len(origins) \in Nat
          /\ \A i \in 1..Len(origins) : origins[i] \in OriginEntries
      BY <2>1
    <2>3. /\ \A i \in 1..Len(origins) : ValidOrigin(Url(origins[i]), config.rp_id)
          /\ \A i, j \in 1..Len(origins) : Url(origins[i]) = Url(origins[j]) => i = j
      BY <1>1, <2>2, ServedConfig DEF ValidOrigins
    <2>4. ASSUME NEW i \in 1..Len(origins), NEW j \in 1..Len(origins),
                 BrowserOrigin(origins[i]) = BrowserOrigin(origins[j])
          PROVE  i = j
      BY <2>2, <2>3, <2>4, OneUrlPerOrigin
    <2>5. Cardinality(named) = Len(origins)
      <3> DEFINE f == [i \in 1..Len(origins) |-> BrowserOrigin(origins[i])]
      <3>1. f \in [1..Len(origins) -> named] BY <2>2
      <3>2. \A i, j \in 1..Len(origins) : f[i] = f[j] => i = j BY <2>4
      <3>3. \A v \in named : \E i \in 1..Len(origins) : f[i] = v BY <2>2
      <3> HIDE DEF f, named
      <3> QED BY <2>2, <3>1, <3>2, <3>3, DistinctValues
    <2> HIDE DEF origins, named
    <2> QED BY <2>1, <2>2, <2>3, <2>5, OwnOrigin
  <1> QED BY <1>1, InitValidation, NextValidation, PTL DEF Spec

-----------------------------------------------------------------------------
\* Requests

\* A text of so many bytes has at least one character, and not more than bytes; one
\* that is not blank has some left after trimming.
LEMMA TextsFit ==
  ASSUME NEW text, IsText(text), NEW max \in Nat
  PROVE  /\ ValidToken(text, max) => FitsColumn(text.chars, max)
         /\ ValidHumanName(text, max) => FitsColumn(text.trimmed, max)
  BY DEF IsText, ValidToken, ValidHumanName, FitsColumn

\* The validator of each operation looks at every field the tables take.
LEMMA AcceptedFields ==
  ASSUME NEW r \in Requests, ValidRequest(r)
  PROVE  /\ "idempotency_key" \in DOMAIN r => ValidToken(r.idempotency_key, 128)
         /\ "subject" \in DOMAIN r => ValidToken(r.subject, 256)
         /\ "label" \in DOMAIN r => ValidHumanName(r.label, 128)
         /\ "expected_revision" \in DOMAIN r => ParseRevision(r.expected_revision) # None
  <1>1. DOMAIN r = {"operation", "caller"} \cup Fields[r.operation]
    BY RequestsAssumption
  <1> USE DEF Fields, ValidSubject, ValidKey
  <1>2. CASE r.operation = "begin_registration" /\ ValidBeginRegistration(r)
    BY <1>1, <1>2 DEF ValidBeginRegistration, BeginRegistrationRequest
  <1>3. CASE r.operation = "finish_registration" /\ ValidFinishRegistration(r)
    BY <1>3, SMT DEF ValidFinishRegistration
  <1>4. CASE r.operation = "begin_authentication" /\ ValidBeginAuthentication(r)
    BY <1>1, <1>4 DEF ValidBeginAuthentication, BeginAuthenticationRequest
  <1>5. CASE r.operation = "finish_authentication" /\ ValidFinishAuthentication(r)
    BY <1>1, <1>5, SMT DEF ValidFinishAuthentication, FinishAuthenticationRequest
  <1>6. CASE r.operation = "list_passkeys" /\ ValidSubject(r.subject)
    BY <1>1, <1>6 DEF ListPasskeysRequest
  <1>7. CASE r.operation = "revoke_passkey" /\ ValidRevoke(r)
    BY <1>1, <1>7 DEF ValidRevoke, RevokePasskeyRequest
  <1> QED BY <1>2, <1>3, <1>4, <1>5, <1>6, <1>7 DEF ValidRequest

\* A revision that is accepted is the one spelling of a number in range.
LEMMA RevisionSpelling ==
  ASSUME NEW text, ParseRevision(text) # None
  PROVE  Parse(text) \in 0..MaxRevision /\ Format(Parse(text)) = text
  <1>1. Parse(text) # None /\ Parse(text) >= 0 /\ Format(Parse(text)) = text
    BY DEF ParseRevision
  <1>2. Parse(text) \in -(MaxRevision + 1)..MaxRevision BY <1>1 DEF Parse
  <1> QED BY <1>1, <1>2, RequestsAssumption

\* Nothing an accepted request carries can fail on a CHECK of the tables.
THEOREM RequestsFit == Spec => []AcceptedRequestsFitTheTables
  <1>1. ASSUME ValidationInv, NEW r \in taken
        PROVE  /\ FitsColumn(r.caller.chars, 128)
               /\ "idempotency_key" \in DOMAIN r => FitsColumn(r.idempotency_key.chars, 128)
               /\ "subject" \in DOMAIN r => FitsColumn(r.subject.chars, 256)
               /\ "label" \in DOMAIN r => FitsColumn(r.label.trimmed, 128)
               /\ "expected_revision" \in DOMAIN r =>
                    Parse(r.expected_revision) \in 0..MaxRevision
    <2>1. Accepted(r) /\ verdict = "valid" BY <1>1 DEF ValidationInv
    <2>2. r \in Requests /\ ValidRequest(r) BY <2>1 DEF Accepted
    <2>3. "caller" \in DOMAIN r /\ \A f \in StoredTexts \cap DOMAIN r : IsText(r[f])
      BY <2>2, RequestsAssumption
    <2>4. ValidToken(r.caller, 128)
      BY <1>1, <2>1, ServedConfig DEF Accepted, AllowedCallers, ValidAuthoritySet
    <2>5. FitsColumn(r.caller.chars, 128) BY <2>3, <2>4, TextsFit DEF StoredTexts
    <2>6. /\ "idempotency_key" \in DOMAIN r => FitsColumn(r.idempotency_key.chars, 128)
          /\ "subject" \in DOMAIN r => FitsColumn(r.subject.chars, 256)
          /\ "label" \in DOMAIN r => FitsColumn(r.label.trimmed, 128)
      BY <2>2, <2>3, AcceptedFields, TextsFit DEF StoredTexts
    <2> QED BY <2>2, <2>5, <2>6, AcceptedFields, RevisionSpelling
  <1>2. ValidationInv => AcceptedRequestsFitTheTables
    BY <1>1 DEF AcceptedRequestsFitTheTables
  <1> QED BY <1>2, InitValidation, NextValidation, PTL DEF Spec

\* A number that two accepted requests expect as the revision is the same text in both.
THEOREM RevisionsAreSpelledOnce == Spec => []OneSpellingPerRevision
  <1>1. ASSUME ValidationInv, NEW r \in taken, "expected_revision" \in DOMAIN r
        PROVE  Format(Parse(r.expected_revision)) = r.expected_revision
    BY <1>1, AcceptedFields, RevisionSpelling DEF ValidationInv, Accepted
  <1>2. ValidationInv => OneSpellingPerRevision
    <2> SUFFICES ASSUME ValidationInv,
                        NEW r1 \in taken, "expected_revision" \in DOMAIN r1,
                        NEW r2 \in taken, "expected_revision" \in DOMAIN r2,
                        Parse(r1.expected_revision) = Parse(r2.expected_revision)
                 PROVE  r1.expected_revision = r2.expected_revision
      BY DEF OneSpellingPerRevision
    <2> QED BY <1>1
  <1> QED BY <1>2, InitValidation, NextValidation, PTL DEF Spec
===============================================================================
