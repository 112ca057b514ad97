------------------------------ MODULE ApiKeysProofs ------------------------------
(***************************************************************************)
(* Proofs about ApiKeys, for any set of keys, any number of failing calls  *)
(* and any number of deaths of the process.                                *)
(***************************************************************************)
EXTENDS ApiKeys, TLAPS

(***************************************************************************)
(* Type correctness.                                                       *)
(***************************************************************************)

\* Every step of a key request keeps the types.
LEMMA StepTypeOK ==
    ASSUME TypeOK, NEW k \in Keys, Step(k)
    PROVE  TypeOK'
<1> USE KeysAssumption DEF TypeOK, Goto, Fault
<1>1. CASE CreateKey(k)
  BY <1>1 DEF CreateKey
<1>2. CASE InsertRow(k)
  BY <1>2 DEF InsertRow, AddRow
<1>3. CASE InsertRowError(k)
  BY <1>3 DEF InsertRowError, AddRow
<1>4. CASE SetContext(k)
  BY <1>4 DEF SetContext, Contexts
<1>5. CASE SetContextError(k)
  BY <1>5 DEF SetContextError, Contexts
<1>6. CASE RevokeKey(k)
  BY <1>6 DEF RevokeKey
<1>7. CASE RevokeKeyError(k)
  BY <1>7 DEF RevokeKeyError
<1>8. CASE ValidateAPIKey(k)
  BY <1>8 DEF ValidateAPIKey, Verdict
<1>9. CASE ValidateAPIKeyError(k)
  BY <1>9 DEF ValidateAPIKeyError
<1> QED BY <1>1, <1>2, <1>3, <1>4, <1>5, <1>6, <1>7, <1>8, <1>9 DEF Step

\* Every state of the API keys is well typed, whatever fails and whenever
\* keys-api dies.
THEOREM TypeCorrect == Spec => []TypeOK
<1>1. Init => TypeOK
  BY KeysAssumption DEF Init, TypeOK, NoAuth, Contexts
<1>2. TypeOK /\ [Next]_vars => TypeOK'
  <2> SUFFICES ASSUME TypeOK, [Next]_vars PROVE TypeOK'
    OBVIOUS
  <2>1. CASE Crash
    BY <2>1 DEF Crash, TypeOK
  <2>2. CASE UNCHANGED vars
    BY <2>2 DEF vars, TypeOK
  <2> QED BY <2>1, <2>2, StepTypeOK DEF Next
<1> QED BY <1>1, <1>2, PTL DEF Spec

-----------------------------------------------------------------------------
(***************************************************************************)
(* Usable keys.                                                            *)
(***************************************************************************)

\* While nothing has failed: the row is written before the context is cached,
\* a context of a new key is the one CreateKey cached, and it is there when the
\* key is handed out.
KeyInv ==
    faults = 0 =>
        \A k \in Keys :
            /\ kpc[k] = "set" => row[k] # "absent"
            /\ ctx[k] # "none" => row[k] # "absent"
            /\ (k \notin Preset /\ kpc[k] = "issued") => ctx[k] = "active"
            /\ k \in Preset => kpc[k] = "issued"

\* Every step of a key request keeps the order of row, context and answer.
LEMMA StepInv ==
    ASSUME TypeOK, KeyInv, NEW k \in Keys, Step(k)
    PROVE  KeyInv'
<1> USE KeysAssumption DEF TypeOK, KeyInv, Goto, Fault
<1>1. CASE CreateKey(k)
  BY <1>1 DEF CreateKey
<1>2. CASE InsertRow(k)
  BY <1>2 DEF InsertRow, AddRow
<1>3. CASE InsertRowError(k)
  BY <1>3 DEF InsertRowError
<1>4. CASE SetContext(k)
  BY <1>4 DEF SetContext
<1>5. CASE SetContextError(k)
  BY <1>5 DEF SetContextError
<1>6. CASE RevokeKey(k)
  BY <1>6 DEF RevokeKey
<1>7. CASE RevokeKeyError(k)
  BY <1>7 DEF RevokeKeyError
<1>8. CASE ValidateAPIKey(k)
  BY <1>8 DEF ValidateAPIKey
<1>9. CASE ValidateAPIKeyError(k)
  BY <1>9 DEF ValidateAPIKeyError
<1> QED BY <1>1, <1>2, <1>3, <1>4, <1>5, <1>6, <1>7, <1>8, <1>9 DEF Step

\* So does the death of the process: a key it was creating is never handed out.
LEMMA KeyInvAlways == Spec => []KeyInv
<1>1. Init => KeyInv
  BY KeysAssumption DEF Init, KeyInv
<1>2. TypeOK /\ KeyInv /\ [Next]_vars => KeyInv'
  <2> SUFFICES ASSUME TypeOK, KeyInv, [Next]_vars PROVE KeyInv'
    OBVIOUS
  <2>1. CASE Crash
    BY <2>1 DEF Crash, TypeOK, KeyInv
  <2>2. CASE UNCHANGED vars
    BY <2>2 DEF vars, KeyInv
  <2> QED BY <2>1, <2>2, StepInv DEF Next
<1> QED BY <1>1, <1>2, TypeCorrect, PTL DEF Spec

\* Until a call fails, a key that authenticates has a row, wherever the process
\* dies.
THEOREM UsableKeysHaveRows == Spec => []UsableKeyHasRow
<1>1. KeyInv => UsableKeyHasRow
  BY DEF KeyInv, UsableKeyHasRow, Verdict
<1> QED BY <1>1, KeyInvAlways, PTL

\* Until a call fails, a key that was handed out and is not revoked authenticates.
THEOREM IssuedKeysWork == Spec => []IssuedKeyWorks
<1>1. KeyInv => IssuedKeyWorks
  BY DEF KeyInv, IssuedKeyWorks, Verdict
<1> QED BY <1>1, KeyInvAlways, PTL

=============================================================================
