-------------------------- MODULE IdpToken_proofs --------------------------
(***************************************************************************)
(* Proofs about IdpToken: IInv is inductive.                               *)
(***************************************************************************)
EXTENDS IdpToken, SequenceTheorems, TLAPS

USE DEF Claimed

LEMMA CodeType == ASSUME TypeOK, NEW c \in DOMAIN codes PROVE codes[c] \in Code
BY DEF TypeOK

\* What an action does to one document of idp_codes.
LEMMA CodeChanges ==
  ASSUME TypeOK, NEW c \in DOMAIN codes, NEW doc \in Code,
         codes' = [codes EXCEPT ![c] = doc]
  PROVE  codes' \in Seq(Code) /\ DOMAIN codes' = DOMAIN codes
BY ExceptSeq DEF TypeOK

\* The jobs when w goes on with its request.
LEMMA JobGoesOn ==
  ASSUME TypeOK, NEW w \in Worker, NEW where \in {"claim", "sign"},
         job[w].at \in {"token", "claim"}, GoOn(w, where)
  PROVE  /\ job[w].code \in DOMAIN codes
         /\ job'[w] = [at |-> where, flow |-> job[w].flow, code |-> job[w].code]
         /\ \A v \in Worker : v # w => job'[v] = job[v]
         /\ job' \in [Worker -> Job]
         /\ \A v \in Worker : job'[v] = Idle \/ job'[v].code \in DOMAIN codes
<1>1. job[w] \in [at : {"token", "claim", "sign"}, flow : Flow, code : Nat]
  BY DEF TypeOK, Job, Idle
<1>2. job[w].code \in DOMAIN codes
  BY <1>1 DEF TypeOK, Idle
<1>3. job'[w] = [at |-> where, flow |-> job[w].flow, code |-> job[w].code]
  BY <1>1 DEF GoOn, TypeOK
<1>4. job'[w] \in Job /\ job'[w].code \in DOMAIN codes
  BY <1>1, <1>2, <1>3 DEF Job
<1> QED
  BY <1>2, <1>3, <1>4 DEF GoOn, TypeOK

LEMMA InitInv == Init => IInv
<1> SUFFICES ASSUME Init PROVE IInv
  OBVIOUS
<1>1. TypeOK
  <2>1. codes \in Seq(Code) /\ tokens \in Seq(Answer) /\ DOMAIN tokens = {}
    BY DEF Init
  <2>2. job \in [Worker -> Job] /\ \A w \in Worker : job[w] = Idle
    BY DEF Init, Job, Idle
  <2>3. keys \subseteq Key /\ active \subseteq keys
    BY DEF Init
  <2>4. activating \in [Admin -> Key \cup {None}]
    BY DEF Init
  <2>5. faults = 0 /\ edits = 0
    BY DEF Init
  <2>6. faults \in 0..MaxFaults /\ edits \in 0..MaxEdits
    BY <2>5, IdpAssumption
  <2> QED
    BY <2>1, <2>2, <2>3, <2>4, <2>6 DEF TypeOK
<1>2. \A w \in Worker : job[w].at = "idle"
  BY DEF Init, Idle
<1>3. DOMAIN tokens = {}
  BY DEF Init
<1> QED
  BY <1>1, <1>2, <1>3 DEF IInv, ClaimInv, BoundInv, KidInv, CodeOnce, TokenBound, SignedByKid

LEMMA TypeStep == TypeOK /\ [Next]_vars => TypeOK'
<1> SUFFICES ASSUME TypeOK, [Next]_vars PROVE TypeOK'
  OBVIOUS
<1> USE IdpAssumption DEF TypeOK, Job, docVars, keyVars, Idle
<1>1. ASSUME NEW f \in Flow, NEW a \in Account, Mint(f, a) PROVE TypeOK'
  <2>1. /\ codes' \in Seq(Code) /\ DOMAIN codes \subseteq DOMAIN codes'
        /\ UNCHANGED <<tokens, job, keyVars>>
    BY <1>1 DEF Mint, Code
  <2>2. faults' \in 0..MaxFaults
    BY <1>1 DEF Mint, Outcome, Fault
  <2> QED
    BY <2>1, <2>2
<1>2. ASSUME NEW c \in DOMAIN codes, CodeExpires(c) PROVE TypeOK'
  <2>1. codes' \in Seq(Code) /\ DOMAIN codes' = DOMAIN codes
    <3>1. [codes[c] EXCEPT !.late = TRUE] \in Code
      BY CodeType DEF Code
    <3> QED
      BY <1>2, <3>1, CodeChanges DEF CodeExpires
  <2> QED
    BY <1>2, <2>1 DEF CodeExpires
<1>3. ASSUME NEW w \in Worker, NEW f \in Flow, NEW c \in DOMAIN codes, Token(w, f, c) PROVE TypeOK'
  BY <1>3 DEF Token
<1>4. ASSUME NEW w \in Worker, CodeAccepted(w) PROVE TypeOK'
  BY <1>4, JobGoesOn DEF CodeAccepted, At
<1>5. ASSUME NEW w \in Worker, CodeRefused(w) PROVE TypeOK'
  BY <1>5 DEF CodeRefused, Outcome, Fault, Over
<1>6. ASSUME NEW w \in Worker, Claim(w) PROVE TypeOK'
  <2>1. codes' \in Seq(Code) /\ DOMAIN codes' = DOMAIN codes
    <3>1. job[w].code \in DOMAIN codes
      BY <1>6 DEF Claim, At
    <3>2. [codes[job[w].code] EXCEPT !.consumed = TRUE] \in Code
      BY <3>1, CodeType DEF Code
    <3> QED
      BY <1>6, <3>1, <3>2, CodeChanges DEF Claim
  <2>2. job' \in [Worker -> Job] /\ \A v \in Worker : job'[v] = Idle \/ job'[v].code \in DOMAIN codes
    BY <1>6, JobGoesOn DEF Claim, At
  <2> QED
    BY <1>6, <2>1, <2>2 DEF Claim
<1>7. ASSUME NEW w \in Worker, ClaimUnheard(w) PROVE TypeOK'
  <2>1. codes' \in Seq(Code) /\ DOMAIN codes' = DOMAIN codes
    <3>1. job[w].code \in DOMAIN codes
      BY <1>7 DEF ClaimUnheard, At
    <3>2. [codes[job[w].code] EXCEPT !.consumed = TRUE] \in Code
      BY <3>1, CodeType DEF Code
    <3> QED
      BY <1>7, <3>1, <3>2, CodeChanges DEF ClaimUnheard
  <2>2. job' \in [Worker -> Job] /\ \A v \in Worker : job'[v] = Idle \/ job'[v].code \in DOMAIN codes
    BY <1>7 DEF ClaimUnheard, Over
  <2> QED
    BY <1>7, <2>1, <2>2 DEF ClaimUnheard, Fault
<1>8. ASSUME NEW w \in Worker, ClaimRefused(w) PROVE TypeOK'
  BY <1>8 DEF ClaimRefused, Over, Outcome, Fault
<1>9. ASSUME NEW w \in Worker, Sign(w) PROVE TypeOK'
  BY <1>9 DEF Sign, At
<1>10. ASSUME NEW w \in Worker, SignFails(w) PROVE TypeOK'
  BY <1>10 DEF SignFails, Over, Outcome, Fault
<1>11. ASSUME NEW w \in Worker, Resign(w) PROVE TypeOK'
  BY <1>11 DEF Resign, At, SigningKeys
<1>12. ASSUME NEW w \in Worker, ResignFails(w) PROVE TypeOK'
  BY <1>12 DEF ResignFails, Over, Outcome, Fault
<1>13. ASSUME NEW w \in Worker, Issue(w) PROVE TypeOK'
  <2>1. job[w].code \in DOMAIN codes /\ codes[job[w].code] \in Code
    BY <1>13 DEF Issue, At
  <2>2. /\ tokens' \in Seq(Answer)
        /\ \A i \in DOMAIN tokens' : tokens'[i].code \in DOMAIN codes
    <3>1. PICK works \in BOOLEAN : tokens' = Append(tokens,
            [code |-> job[w].code, flow |-> job[w].flow, sub |-> codes[job[w].code].account,
             kid |-> job[w].kid, key |-> job[w].key, stored |-> works])
      BY <1>13 DEF Issue
    <3>2. /\ job[w].code \in Nat /\ job[w].flow \in Flow
          /\ job[w].kid \in Key /\ job[w].key \in Key
      <4>1. job[w] \in Job /\ job[w].at = "issue"
        BY <1>13 DEF Issue, At
      <4>2. job[w] \in [at : {"issue"}, flow : Flow, code : Nat, kid : Key, key : Key]
        BY <4>1
      <4> QED
        BY <4>2
    <3> QED
      BY <2>1, <3>1, <3>2 DEF Answer, Code
  <2>3. job' \in [Worker -> Job] /\ \A v \in Worker : job'[v] = Idle \/ job'[v].code \in DOMAIN codes
    BY <1>13 DEF Issue, Over
  <2> QED
    BY <1>13, <2>2, <2>3 DEF Issue, Outcome, Fault
<1>14. ASSUME NEW k \in Key, Generate(k) PROVE TypeOK'
  BY <1>14 DEF Generate, Edit
<1>15. ASSUME NEW a \in Admin, NEW k \in Key, ActivateFirst(a, k) PROVE TypeOK'
  BY <1>15 DEF ActivateFirst, Edit, FirstWrite
<1>16. ASSUME NEW a \in Admin, ActivateSecond(a) PROVE TypeOK'
  BY <1>16 DEF ActivateSecond, SecondWrite
<1>17. ASSUME NEW a \in Admin, NEW k \in Key, DeleteKey(a, k) PROVE TypeOK'
  BY <1>17 DEF DeleteKey, Edit
<1>18. CASE UNCHANGED vars
  BY <1>18 DEF vars
<1> QED
  BY <1>1, <1>2, <1>3, <1>4, <1>5, <1>6, <1>7, <1>8, <1>9, <1>10, <1>11, <1>12,
     <1>13, <1>14, <1>15, <1>16, <1>17, <1>18 DEF Next, WorkerStep, OnPremises

----------------------------------------------------------------------------
(* The life of a code: claimed once, answered once. *)

\* The steps that leave the claims as they are: no job gets behind the claim or
\* changes its code there, nothing is issued, and no document is unclaimed.
LEMMA ClaimKept ==
  ASSUME TypeOK, ClaimInv, UNCHANGED tokens,
         \A c \in DOMAIN codes : c \in DOMAIN codes' /\ (codes[c].consumed => codes'[c].consumed),
         \A w \in Worker : job'[w].at \in Claimed =>
           job[w].at \in Claimed /\ job'[w].code = job[w].code
  PROVE  ClaimInv'
<1> USE DEF ClaimInv
<1>1. \A w \in Worker : job[w].at \in Claimed => job[w].code \in DOMAIN codes
  BY DEF TypeOK, Idle
<1>2. \A i \in DOMAIN tokens : tokens[i].code \in DOMAIN codes
  BY DEF TypeOK
<1> QED
  BY <1>1, <1>2

LEMMA ClaimStep == TypeOK /\ ClaimInv /\ [Next]_vars => ClaimInv'
<1> SUFFICES ASSUME TypeOK, ClaimInv, [Next]_vars PROVE ClaimInv'
  OBVIOUS
<1> USE DEF docVars, keyVars, Idle
<1>0. job \in [Worker -> Job] /\ \A c \in DOMAIN codes : codes[c] \in Code
  BY CodeType DEF TypeOK
<1>1. ASSUME NEW f \in Flow, NEW a \in Account, Mint(f, a) PROVE ClaimInv'
  <2>1. \A c \in DOMAIN codes : c \in DOMAIN codes' /\ codes'[c] = codes[c]
    BY <1>1 DEF Mint, TypeOK
  <2> QED
    BY <1>1, <2>1, ClaimKept DEF Mint
<1>2. ASSUME NEW c \in DOMAIN codes, CodeExpires(c) PROVE ClaimInv'
  <2>1. \A d \in DOMAIN codes : d \in DOMAIN codes' /\ codes'[d].consumed = codes[d].consumed
    BY <1>0, <1>2 DEF CodeExpires, Code, TypeOK
  <2> QED
    BY <1>2, <2>1, ClaimKept DEF CodeExpires
<1>3. ASSUME NEW w \in Worker, NEW f \in Flow, NEW c \in DOMAIN codes, Token(w, f, c) PROVE ClaimInv'
  BY <1>0, <1>3, ClaimKept DEF Token
<1>4. ASSUME NEW w \in Worker, CodeAccepted(w) PROVE ClaimInv'
  <2>1. /\ job'[w].at = "claim"
        /\ \A v \in Worker : v # w => job'[v] = job[v]
    BY <1>0, <1>4 DEF CodeAccepted, At, GoOn
  <2> QED
    BY <1>4, <2>1, ClaimKept DEF CodeAccepted
<1>5. ASSUME NEW w \in Worker, CodeRefused(w) PROVE ClaimInv'
  BY <1>0, <1>5, ClaimKept DEF CodeRefused, Over
<1>6. ASSUME NEW w \in Worker, Claim(w) PROVE ClaimInv'
  <2>1. /\ job[w].code \in DOMAIN codes
        /\ job'[w] = [at |-> "sign", flow |-> job[w].flow, code |-> job[w].code]
        /\ \A v \in Worker : v # w => job'[v] = job[v]
    BY <1>6, JobGoesOn DEF Claim, At
  <2>2. /\ DOMAIN codes' = DOMAIN codes
        /\ \A c \in DOMAIN codes : codes'[c].consumed = (codes[c].consumed \/ c = job[w].code)
    BY <1>0, <1>6, <2>1 DEF Claim, Code, TypeOK
  <2>3. ~codes[job[w].code].consumed
    BY <1>6 DEF Claim, Claimable
  <2>4. \A v \in Worker : job[v].at \in Claimed => job[v].code \in DOMAIN codes /\ job[v].code # job[w].code
    BY <2>3 DEF ClaimInv, TypeOK
  <2>5. \A i \in DOMAIN tokens : tokens[i].code \in DOMAIN codes /\ tokens[i].code # job[w].code
    BY <2>3 DEF ClaimInv, TypeOK
  <2> QED
    BY <1>6, <2>1, <2>2, <2>4, <2>5 DEF ClaimInv, Claim
<1>7. ASSUME NEW w \in Worker, ClaimUnheard(w) PROVE ClaimInv'
  <2>1. \A c \in DOMAIN codes : c \in DOMAIN codes' /\ (codes[c].consumed => codes'[c].consumed)
    BY <1>0, <1>7 DEF ClaimUnheard, Code, TypeOK
  <2> QED
    BY <1>0, <1>7, <2>1, ClaimKept DEF ClaimUnheard, Over
<1>8. ASSUME NEW w \in Worker, ClaimRefused(w) PROVE ClaimInv'
  BY <1>0, <1>8, ClaimKept DEF ClaimRefused, Over
<1>9. ASSUME NEW w \in Worker, Sign(w) PROVE ClaimInv'
  BY <1>0, <1>9, ClaimKept DEF Sign, At
<1>10. ASSUME NEW w \in Worker, SignFails(w) PROVE ClaimInv'
  BY <1>0, <1>10, ClaimKept DEF SignFails, Over
<1>11. ASSUME NEW w \in Worker, Resign(w) PROVE ClaimInv'
  BY <1>0, <1>11, ClaimKept DEF Resign, At
<1>12. ASSUME NEW w \in Worker, ResignFails(w) PROVE ClaimInv'
  BY <1>0, <1>12, ClaimKept DEF ResignFails, Over
<1>13. ASSUME NEW w \in Worker, Issue(w) PROVE ClaimInv'
  <2>1. PICK token : tokens' = Append(tokens, token) /\ token.code = job[w].code
    BY <1>13 DEF Issue
  <2>2. /\ DOMAIN tokens' = DOMAIN tokens \cup {Len(tokens) + 1}
        /\ \A i \in DOMAIN tokens : tokens'[i] = tokens[i]
        /\ tokens'[Len(tokens) + 1].code = job[w].code
    BY <2>1 DEF TypeOK
  <2>3. job'[w].at = "idle" /\ \A v \in Worker : v # w => job'[v] = job[v]
    BY <1>0, <1>13 DEF Issue, Over
  <2>4. codes' = codes /\ job[w].at \in Claimed
    BY <1>13 DEF Issue, At
  <2> QED
    BY <2>2, <2>3, <2>4 DEF ClaimInv
<1>14. CASE OnPremises \/ UNCHANGED vars
  <2>1. UNCHANGED <<docVars, job>>
    BY <1>14 DEF OnPremises, Generate, ActivateFirst, ActivateSecond, DeleteKey, vars
  <2> QED
    BY <2>1, ClaimKept
<1> QED
  BY <1>1, <1>2, <1>3, <1>4, <1>5, <1>6, <1>7, <1>8, <1>9, <1>10, <1>11, <1>12,
     <1>13, <1>14 DEF Next, WorkerStep

\* What the checks found stays so: the flow and the account of a code never
\* change.
LEMMA BoundKept ==
  ASSUME TypeOK, BoundInv, TokenBound, UNCHANGED tokens,
         \A c \in DOMAIN codes : /\ c \in DOMAIN codes'
                                /\ codes'[c].flow = codes[c].flow
                                /\ codes'[c].account = codes[c].account,
         \A w \in Worker : job'[w].at \in Claimed \cup {"claim"} =>
           /\ job[w].at \in Claimed \cup {"claim"}
           /\ job'[w].code = job[w].code
           /\ job'[w].flow = job[w].flow
  PROVE  BoundInv' /\ TokenBound'
<1>1. \A w \in Worker : job[w].at \in Claimed \cup {"claim"} => job[w].code \in DOMAIN codes
  BY DEF TypeOK, Idle
<1>2. \A i \in DOMAIN tokens : tokens[i].code \in DOMAIN codes
  BY DEF TypeOK
<1> QED
  BY <1>1, <1>2 DEF BoundInv, TokenBound

LEMMA BoundStep ==
  TypeOK /\ BoundInv /\ TokenBound /\ [Next]_vars => BoundInv' /\ TokenBound'
<1> SUFFICES ASSUME TypeOK, BoundInv, TokenBound, [Next]_vars PROVE BoundInv' /\ TokenBound'
  OBVIOUS
<1> USE DEF docVars, keyVars, Idle
<1> DEFINE Goal == BoundInv' /\ TokenBound'
<1>0. job \in [Worker -> Job] /\ \A c \in DOMAIN codes : codes[c] \in Code
  BY CodeType DEF TypeOK
<1>1. ASSUME NEW f \in Flow, NEW a \in Account, Mint(f, a) PROVE Goal
  <2>1. \A c \in DOMAIN codes : c \in DOMAIN codes' /\ codes'[c] = codes[c]
    BY <1>1 DEF Mint, TypeOK
  <2> QED
    BY <1>1, <2>1, BoundKept DEF Mint
<1>2. ASSUME NEW c \in DOMAIN codes, CodeExpires(c) PROVE Goal
  <2>1. \A d \in DOMAIN codes : /\ d \in DOMAIN codes'
                                /\ codes'[d].flow = codes[d].flow
                                /\ codes'[d].account = codes[d].account
    BY <1>0, <1>2 DEF CodeExpires, Code, TypeOK
  <2> QED
    BY <1>2, <2>1, BoundKept DEF CodeExpires
<1>3. ASSUME NEW w \in Worker, NEW f \in Flow, NEW c \in DOMAIN codes, Token(w, f, c) PROVE Goal
  BY <1>0, <1>3, BoundKept DEF Token
<1>4. ASSUME NEW w \in Worker, CodeAccepted(w) PROVE Goal
  <2>1. /\ job[w].code \in DOMAIN codes
        /\ job'[w] = [at |-> "claim", flow |-> job[w].flow, code |-> job[w].code]
        /\ \A v \in Worker : v # w => job'[v] = job[v]
    BY <1>4, JobGoesOn DEF CodeAccepted, At
  <2>2. job[w].flow \in Flow /\ codes[job[w].code].flow \in Flow
    BY <1>0, <1>4, <2>1 DEF CodeAccepted, At, Job, Code
  <2>3. job[w].flow = codes[job[w].code].flow
    BY <1>4, <2>2, IdpAssumption DEF CodeAccepted, Accepts
  <2> QED
    BY <1>4, <2>1, <2>3 DEF BoundInv, TokenBound, CodeAccepted
<1>5. ASSUME NEW w \in Worker, CodeRefused(w) PROVE Goal
  BY <1>0, <1>5, BoundKept DEF CodeRefused, Over
<1>6. ASSUME NEW w \in Worker, Claim(w) PROVE Goal
  <2>1. /\ job'[w] = [at |-> "sign", flow |-> job[w].flow, code |-> job[w].code]
        /\ \A v \in Worker : v # w => job'[v] = job[v]
    BY <1>6, JobGoesOn DEF Claim, At
  <2>2. \A d \in DOMAIN codes : /\ d \in DOMAIN codes'
                                /\ codes'[d].flow = codes[d].flow
                                /\ codes'[d].account = codes[d].account
    BY <1>0, <1>6 DEF Claim, Code, TypeOK
  <2> QED
    BY <1>6, <2>1, <2>2, BoundKept DEF Claim, At
<1>7. ASSUME NEW w \in Worker, ClaimUnheard(w) PROVE Goal
  <2>1. \A d \in DOMAIN codes : /\ d \in DOMAIN codes'
                                /\ codes'[d].flow = codes[d].flow
                                /\ codes'[d].account = codes[d].account
    BY <1>0, <1>7 DEF ClaimUnheard, Code, TypeOK
  <2> QED
    BY <1>0, <1>7, <2>1, BoundKept DEF ClaimUnheard, Over
<1>8. ASSUME NEW w \in Worker, ClaimRefused(w) PROVE Goal
  BY <1>0, <1>8, BoundKept DEF ClaimRefused, Over
<1>9. ASSUME NEW w \in Worker, Sign(w) PROVE Goal
  BY <1>0, <1>9, BoundKept DEF Sign, At
<1>10. ASSUME NEW w \in Worker, SignFails(w) PROVE Goal
  BY <1>0, <1>10, BoundKept DEF SignFails, Over
<1>11. ASSUME NEW w \in Worker, Resign(w) PROVE Goal
  BY <1>0, <1>11, BoundKept DEF Resign, At
<1>12. ASSUME NEW w \in Worker, ResignFails(w) PROVE Goal
  BY <1>0, <1>12, BoundKept DEF ResignFails, Over
<1>13. ASSUME NEW w \in Worker, Issue(w) PROVE Goal
  <2>1. PICK token : /\ tokens' = Append(tokens, token)
                     /\ token.code = job[w].code /\ token.flow = job[w].flow
                     /\ token.sub = codes[job[w].code].account
    BY <1>13 DEF Issue
  <2>2. /\ DOMAIN tokens' = DOMAIN tokens \cup {Len(tokens) + 1}
        /\ \A i \in DOMAIN tokens : tokens'[i] = tokens[i]
        /\ tokens'[Len(tokens) + 1] = token
    BY <2>1 DEF TypeOK
  <2>3. job'[w].at = "idle" /\ \A v \in Worker : v # w => job'[v] = job[v]
    BY <1>0, <1>13 DEF Issue, Over
  <2>4. codes' = codes /\ job[w].flow = codes[job[w].code].flow
    BY <1>13 DEF Issue, At, BoundInv
  <2> QED
    BY <2>1, <2>2, <2>3, <2>4 DEF BoundInv, TokenBound
<1>14. CASE OnPremises \/ UNCHANGED vars
  <2>1. UNCHANGED <<docVars, job>>
    BY <1>14 DEF OnPremises, Generate, ActivateFirst, ActivateSecond, DeleteKey, vars
  <2> QED
    BY <2>1, BoundKept
<1> QED
  BY <1>1, <1>2, <1>3, <1>4, <1>5, <1>6, <1>7, <1>8, <1>9, <1>10, <1>11, <1>12,
     <1>13, <1>14 DEF Next, WorkerStep

----------------------------------------------------------------------------
(* The signatures, and the answers so far. *)

\* The steps that issue nothing and have nothing signed a second time.
LEMMA KidKept ==
  ASSUME KidInv, SignedByKid, UNCHANGED tokens,
         \A w \in Worker : job'[w].at = "issue" => job'[w] = job[w]
  PROVE  KidInv' /\ SignedByKid'
BY DEF KidInv, SignedByKid

LEMMA KidStep ==
  TypeOK /\ KidInv /\ SignedByKid /\ [Next]_vars => KidInv' /\ SignedByKid'
<1> SUFFICES ASSUME TypeOK, KidInv, SignedByKid, [Next]_vars PROVE KidInv' /\ SignedByKid'
  OBVIOUS
<1> USE DEF docVars, keyVars, Idle
<1> DEFINE Goal == KidInv' /\ SignedByKid'
<1>0. job \in [Worker -> Job]
  BY DEF TypeOK
<1>1. CASE UNCHANGED <<tokens, job>>
  BY <1>1, KidKept
<1>2. ASSUME NEW w \in Worker, NEW f \in Flow, NEW c \in DOMAIN codes, Token(w, f, c) PROVE Goal
  BY <1>0, <1>2, KidKept DEF Token
<1>3. ASSUME NEW w \in Worker, CodeAccepted(w) PROVE Goal
  <2>1. job'[w].at = "claim" /\ \A v \in Worker : v # w => job'[v] = job[v]
    BY <1>0, <1>3 DEF CodeAccepted, At, GoOn
  <2> QED
    BY <1>3, <2>1, KidKept DEF CodeAccepted
<1>4. ASSUME NEW w \in Worker, Claim(w) PROVE Goal
  <2>1. job'[w].at = "sign" /\ \A v \in Worker : v # w => job'[v] = job[v]
    BY <1>0, <1>4 DEF Claim, At, GoOn
  <2> QED
    BY <1>4, <2>1, KidKept DEF Claim
<1>5. ASSUME NEW w \in Worker, UNCHANGED tokens, Over(w) PROVE Goal
  BY <1>0, <1>5, KidKept DEF Over
<1>6. ASSUME NEW w \in Worker, Sign(w) PROVE Goal
  BY <1>0, <1>6, KidKept DEF Sign
<1>7. ASSUME NEW w \in Worker, Resign(w) PROVE Goal
  <2>1. job'[w].kid = job'[w].key /\ \A v \in Worker : v # w => job'[v] = job[v]
    BY <1>0, <1>7 DEF Resign, SigningKeys
  <2> QED
    BY <1>7, <2>1 DEF KidInv, SignedByKid, Resign
<1>8. ASSUME NEW w \in Worker, Issue(w) PROVE Goal
  <2>1. PICK token : /\ tokens' = Append(tokens, token)
                     /\ token.kid = job[w].kid /\ token.key = job[w].key
    BY <1>8 DEF Issue
  <2>2. /\ DOMAIN tokens' = DOMAIN tokens \cup {Len(tokens) + 1}
        /\ \A i \in DOMAIN tokens : tokens'[i] = tokens[i]
        /\ tokens'[Len(tokens) + 1] = token
    BY <2>1 DEF TypeOK
  <2>3. job'[w].at = "idle" /\ \A v \in Worker : v # w => job'[v] = job[v]
    BY <1>0, <1>8 DEF Issue, Over
  <2>4. job[w].kid = job[w].key
    BY <1>8 DEF Issue, At, KidInv
  <2> QED
    BY <2>1, <2>2, <2>3, <2>4 DEF KidInv, SignedByKid
<1> QED
  <2>1. ASSUME NEW w \in Worker, WorkerStep(w) PROVE Goal
    BY <2>1, <1>3, <1>4, <1>5, <1>6, <1>7, <1>8
    DEF WorkerStep, CodeRefused, ClaimUnheard, ClaimRefused, SignFails, ResignFails
  <2>2. CASE OnPremises \/ UNCHANGED vars
    BY <2>2, <1>1 DEF OnPremises, Generate, ActivateFirst, ActivateSecond, DeleteKey, vars
  <2>3. ASSUME NEW f \in Flow, NEW a \in Account, Mint(f, a) PROVE Goal
    BY <2>3, <1>1 DEF Mint
  <2>4. ASSUME NEW c \in DOMAIN codes, CodeExpires(c) PROVE Goal
    BY <2>4, <1>1 DEF CodeExpires
  <2> QED
    BY <1>2, <2>1, <2>2, <2>3, <2>4 DEF Next

\* Only Issue() adds an answer, and for a code that has none.
LEMMA OnceStep == TypeOK /\ ClaimInv /\ CodeOnce /\ [Next]_vars => CodeOnce'
<1> SUFFICES ASSUME TypeOK, ClaimInv, CodeOnce, [Next]_vars PROVE CodeOnce'
  OBVIOUS
<1>1. CASE UNCHANGED tokens
  BY <1>1 DEF CodeOnce
<1>2. ASSUME NEW w \in Worker, Issue(w) PROVE CodeOnce'
  <2>1. PICK token : tokens' = Append(tokens, token) /\ token.code = job[w].code
    BY <1>2 DEF Issue
  <2>2. /\ DOMAIN tokens' = DOMAIN tokens \cup {Len(tokens) + 1}
        /\ \A i \in DOMAIN tokens : tokens'[i] = tokens[i]
        /\ tokens'[Len(tokens) + 1].code = job[w].code
    BY <2>1 DEF TypeOK
  <2>3. \A i \in DOMAIN tokens : tokens[i].code # job[w].code
    BY <1>2 DEF Issue, At, ClaimInv
  <2> QED
    BY <2>2, <2>3 DEF CodeOnce
<1> QED
  BY <1>1, <1>2
  DEF Next, WorkerStep, OnPremises, Mint, CodeExpires, Token, CodeAccepted, CodeRefused, Claim,
      ClaimUnheard, ClaimRefused, Sign, SignFails, Resign, ResignFails, Generate, ActivateFirst,
      ActivateSecond, DeleteKey, vars, docVars, keyVars

----------------------------------------------------------------------------
\* IInv holds in every state of every behaviour: whatever the flows, workers,
\* keys, administrators and bounds.
THEOREM Invariance == Spec => []IInv
<1>1. Init => IInv
  BY InitInv
<1>2. IInv /\ [Next]_vars => IInv'
  BY TypeStep, ClaimStep, BoundStep, KidStep, OnceStep DEF IInv
<1> QED
  BY <1>1, <1>2, PTL DEF Spec

\* The types of every variable.
THEOREM TypeCorrect == Spec => []TypeOK
<1>1. IInv => TypeOK
  BY DEF IInv
<1> QED
  BY <1>1, Invariance, PTL

\* idp_token.cpp:109-123: a code is answered with tokens once at most.
THEOREM CodeAnsweredOnce == Spec => []CodeOnce
<1>1. IInv => CodeOnce
  BY DEF IInv
<1> QED
  BY <1>1, Invariance, PTL

\* idp_token.cpp:93-107: tokens go to whom the code was minted for.
THEOREM TokensBound == Spec => []TokenBound
<1>1. IInv => TokenBound
  BY DEF IInv
<1> QED
  BY <1>1, Invariance, PTL

\* idp_token.cpp:159-169: the header of an id_token names the key that signed it.
THEOREM KidSigned == Spec => []SignedByKid
<1>1. IInv => SignedByKid
  BY DEF IInv
<1> QED
  BY <1>1, Invariance, PTL
============================================================================
