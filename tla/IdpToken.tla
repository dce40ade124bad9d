------------------------------ MODULE IdpToken ------------------------------
(***************************************************************************)
(* The token endpoint of the in-house identity provider: token() reads an  *)
(* authorisation code, claims it, has the id_token signed on-premises in   *)
(* two calls and stores the access token, each a call that may fail and    *)
(* between whose steps other workers and the administrators of the signing *)
(* keys go on.  Codes and tokens are named by their position in the order  *)
(* of creation: nothing ever deletes one.                                  *)
(***************************************************************************)
EXTENDS Integers, Sequences, FiniteSets

CONSTANTS Flow,     \* authorisation requests: [client, uri, challenge]
          Account, Worker,
          Key,      \* signing keys the administrators may generate
          Admin,    \* administrators at their signing-keys page
          None,
          MaxCodes,  \* bound: codes ever minted
          MaxEdits,  \* bound: what administrators do
          MaxFaults  \* bound: database calls that fail

ASSUME IdpAssumption ==
  /\ None \notin Key
  /\ \A f, g \in Flow :
       f.client = g.client /\ f.uri = g.uri /\ f.challenge = g.challenge => f = g
  /\ MaxCodes \in Nat /\ MaxEdits \in Nat /\ MaxFaults \in Nat

VARIABLES codes,       \* idp_codes
          tokens,      \* the answers of /token, and what is in idp_access_tokens
          job,         \* the request every worker is busy with
          keys, active,   \* idp_signing_keys, and the rows with active:true
          activating,  \* the key an administrator is activating
          faults, edits

docVars == <<codes, tokens>>
keyVars == <<keys, active, activating, edits>>
vars == <<docVars, job, keyVars, faults>>

----------------------------------------------------------------------------
Idle == [at |-> "idle"]

\* A call that fails counts against the bound; the others leave it alone.
Fault == faults < MaxFaults /\ faults' = faults + 1
Outcome(works) == IF works THEN UNCHANGED faults ELSE Fault

\* A worker goes on, gives up or is done.
At(w, where) == job[w].at = where
GoOn(w, where) == job' = [job EXCEPT ![w].at = where]
Over(w) == job' = [job EXCEPT ![w] = Idle]

\* The keys of an earlier time may be there already.
Init ==
  /\ codes = <<>> /\ tokens = <<>>
  /\ job = [w \in Worker |-> Idle]
  /\ keys \in SUBSET Key \ {{}}
  /\ \E k \in keys : active = {k}
  /\ activating = [a \in Admin |-> None]
  /\ faults = 0 /\ edits = 0

----------------------------------------------------------------------------
\* The end of authorize(): nobody looks at what create_document() returns.
Mint(f, a) ==
  /\ Len(codes) < MaxCodes
  /\ \E works \in BOOLEAN :
       /\ Outcome(works)
       /\ codes' = Append(codes, [flow |-> f, account |-> a, there |-> works,
                                  late |-> FALSE, consumed |-> FALSE])
  /\ UNCHANGED <<tokens, job, keyVars>>

\* expiresAt passes: nothing to a request that has read the document already.
CodeExpires(c) ==
  /\ ~codes[c].late
  /\ codes' = [codes EXCEPT ![c].late = TRUE]
  /\ UNCHANGED <<tokens, job, keyVars, faults>>

----------------------------------------------------------------------------
(* POST /token.                                                            *)

\* A client presents a code with its own name, redirect URI and verifier.
Token(w, f, c) ==
  /\ job[w] = Idle
  /\ job' = [job EXCEPT ![w] = [at |-> "token", flow |-> f, code |-> c]]
  /\ UNCHANGED <<docVars, keyVars, faults>>

\* Mutant: no comparison of the verifier with the challenge.
AcceptsAnyVerifier(w) ==
  LET doc == codes[job[w].code] IN
  /\ doc.there /\ ~doc.late
  /\ doc.flow.client = job[w].flow.client
  /\ doc.flow.uri = job[w].flow.uri

\* The checks on the document that was read.
Accepts(w) ==
  LET doc == codes[job[w].code] IN
  /\ doc.there /\ ~doc.late
  /\ doc.flow.client = job[w].flow.client
  /\ doc.flow.uri = job[w].flow.uri
  /\ doc.flow.challenge = job[w].flow.challenge

CodeAccepted(w) ==
  /\ At(w, "token")
  /\ Accepts(w)
  /\ GoOn(w, "claim")
  /\ UNCHANGED <<docVars, keyVars, faults>>

CodeRefused(w) ==
  /\ At(w, "token")
  /\ Outcome(~Accepts(w))
  /\ Over(w)
  /\ UNCHANGED <<docVars, keyVars>>

\* Mutant: the filter of the update does not ask for an unclaimed code.
ClaimableTwice(c) == codes[c].there

\* The atomic claim: an update whose filter asks for a code without "consumed".
Claimable(c) == codes[c].there /\ ~codes[c].consumed

Claim(w) ==
  /\ At(w, "claim")
  /\ Claimable(job[w].code)
  /\ codes' = [codes EXCEPT ![job[w].code].consumed = TRUE]
  /\ GoOn(w, "sign")
  /\ UNCHANGED <<tokens, keyVars, faults>>

\* Executed, and reported as failed: the code is used up.
ClaimUnheard(w) ==
  /\ At(w, "claim")
  /\ Claimable(job[w].code)
  /\ codes' = [codes EXCEPT ![job[w].code].consumed = TRUE]
  /\ Fault
  /\ Over(w)
  /\ UNCHANGED <<tokens, keyVars>>

ClaimRefused(w) ==
  /\ At(w, "claim")
  /\ Outcome(~Claimable(job[w].code))
  /\ Over(w)
  /\ UNCHANGED <<docVars, keyVars>>

\* sign_jwt_on_prem() twice: for "current", to learn its name, and for that
\* name, over a header that says it.
Sign(w) ==
  /\ At(w, "sign")
  /\ \E k \in active :
       job' = [job EXCEPT ![w] = [at |-> "resign", flow |-> job[w].flow,
                                  code |-> job[w].code, kid |-> k]]
  /\ UNCHANGED <<docVars, keyVars, faults>>

SignFails(w) ==
  /\ At(w, "sign")
  /\ Outcome(active = {})
  /\ Over(w)
  /\ UNCHANGED <<docVars, keyVars>>

\* Mutant: the second signature is asked of the current key again.
SigningKeysCurrent(w) == active

SigningKeys(w) == keys \cap {job[w].kid}

Resign(w) ==
  /\ At(w, "resign")
  /\ \E k \in SigningKeys(w) :
       job' = [job EXCEPT ![w] = [at |-> "issue", flow |-> job[w].flow,
                                  code |-> job[w].code, kid |-> job[w].kid, key |-> k]]
  /\ UNCHANGED <<docVars, keyVars, faults>>

ResignFails(w) ==
  /\ At(w, "resign")
  /\ Outcome(SigningKeys(w) = {})
  /\ Over(w)
  /\ UNCHANGED <<docVars, keyVars>>

\* The access token is stored, or is not: the answer is the same.
Issue(w) ==
  /\ At(w, "issue")
  /\ \E works \in BOOLEAN :
       /\ Outcome(works)
       /\ tokens' = Append(tokens, [code |-> job[w].code, flow |-> job[w].flow,
                                    sub |-> codes[job[w].code].account,
                                    kid |-> job[w].kid, key |-> job[w].key, stored |-> works])
  /\ Over(w)
  /\ UNCHANGED <<codes, keyVars>>

----------------------------------------------------------------------------
(* The signing keys: IdpSigningKeyService.                                 *)

Edit == edits < MaxEdits /\ edits' = edits + 1

Generate(k) ==
  /\ Edit
  /\ k \notin keys
  /\ keys' = keys \cup {k}
  /\ UNCHANGED <<docVars, job, active, activating, faults>>

\* activate(): one row set, then all the other active rows cleared.
FirstWrite(k) == active \cup {k}
SecondWrite(k) == active \cap {k}

ActivateFirst(a, k) ==
  /\ Edit
  /\ activating[a] = None
  /\ k \in keys
  /\ active' = FirstWrite(k)
  /\ activating' = [activating EXCEPT ![a] = k]
  /\ UNCHANGED <<docVars, job, keys, faults>>

ActivateSecond(a) ==
  /\ activating[a] # None
  /\ active' = SecondWrite(activating[a])
  /\ activating' = [activating EXCEPT ![a] = None]
  /\ UNCHANGED <<docVars, job, keys, edits, faults>>

\* The dialog of an administrator who is not activating at the same time.
DeleteKey(a, k) ==
  /\ Edit
  /\ activating[a] = None
  /\ k \in keys
  /\ keys' = keys \ {k}
  /\ active' = active \ {k}
  /\ UNCHANGED <<docVars, job, activating, faults>>

----------------------------------------------------------------------------
WorkerStep(w) ==
  \/ CodeAccepted(w) \/ CodeRefused(w)
  \/ Claim(w) \/ ClaimUnheard(w) \/ ClaimRefused(w)
  \/ Sign(w) \/ SignFails(w) \/ Resign(w) \/ ResignFails(w)
  \/ Issue(w)

OnPremises ==
  \/ \E k \in Key : Generate(k)
  \/ \E a \in Admin : ActivateSecond(a)
  \/ \E a \in Admin, k \in Key : ActivateFirst(a, k) \/ DeleteKey(a, k)

Next ==
  \/ \E f \in Flow, a \in Account : Mint(f, a)
  \/ \E c \in DOMAIN codes : CodeExpires(c)
  \/ \E w \in Worker, f \in Flow, c \in DOMAIN codes : Token(w, f, c)
  \/ \E w \in Worker : WorkerStep(w)
  \/ OnPremises

Spec == Init /\ [][Next]_vars
----------------------------------------------------------------------------
Job ==
  {Idle}
  \cup [at : {"token", "claim", "sign"}, flow : Flow, code : Nat]
  \cup [at : {"resign"}, flow : Flow, code : Nat, kid : Key]
  \cup [at : {"issue"}, flow : Flow, code : Nat, kid : Key, key : Key]

Code == [flow : Flow, account : Account, there : BOOLEAN, late : BOOLEAN, consumed : BOOLEAN]
Answer == [code : Nat, flow : Flow, sub : Account, kid : Key, key : Key, stored : BOOLEAN]

TypeOK ==
  /\ codes \in Seq(Code)
  /\ tokens \in Seq(Answer) /\ \A i \in DOMAIN tokens : tokens[i].code \in DOMAIN codes
  /\ job \in [Worker -> Job] /\ \A w \in Worker : job[w] = Idle \/ job[w].code \in DOMAIN codes
  /\ keys \subseteq Key /\ active \subseteq keys
  /\ activating \in [Admin -> Key \cup {None}]
  /\ faults \in 0..MaxFaults /\ edits \in 0..MaxEdits

\* idp_token.cpp:109-123: however many requests present a code, also again
\* after one that failed half way or was reported as failed, one answer at most
\* carries tokens for it.
CodeOnce ==
  \A i, j \in DOMAIN tokens : tokens[i].code = tokens[j].code => i = j

\* idp_token.cpp:93-107, 139-149: tokens are given to the client, redirect URI
\* and verifier of the request the code was minted for, about its account.
TokenBound ==
  \A i \in DOMAIN tokens :
    /\ tokens[i].flow = codes[tokens[i].code].flow
    /\ tokens[i].sub = codes[tokens[i].code].account

\* idp_token.cpp:159-169: the key named in the header is the one that signed,
\* through any rotation between the two signatures.
SignedByKid == \A i \in DOMAIN tokens : tokens[i].kid = tokens[i].key

----------------------------------------------------------------------------
(* The inductive invariant behind those properties.                        *)

\* A code that was claimed is one worker's, or has its token already.
Claimed == {"sign", "resign", "issue"}
ClaimInv ==
  /\ \A w \in Worker : job[w].at \in Claimed => codes[job[w].code].consumed
  /\ \A w, v \in Worker :
       job[w].at \in Claimed /\ job[v].at \in Claimed /\ job[w].code = job[v].code => w = v
  /\ \A i \in DOMAIN tokens : codes[tokens[i].code].consumed
  /\ \A i \in DOMAIN tokens, w \in Worker :
       job[w].at \in Claimed => tokens[i].code # job[w].code

\* Whoever passed the checks presented what the code was minted for.
BoundInv ==
  \A w \in Worker :
    job[w].at \in Claimed \cup {"claim"} => job[w].flow = codes[job[w].code].flow

KidInv == \A w \in Worker : job[w].at = "issue" => job[w].kid = job[w].key

IInv == TypeOK /\ ClaimInv /\ BoundInv /\ KidInv /\ CodeOnce /\ TokenBound /\ SignedByKid
============================================================================
