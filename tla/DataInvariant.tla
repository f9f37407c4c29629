---------------------------- MODULE DataInvariant ----------------------------
(***************************************************************************)
(* Why messages are read as they were sent and are heard: the inductive    *)
(* invariant of SdkData that DataProofs proves.                            *)
(***************************************************************************)
EXTENDS SdkData, SdkInvariant

(* The devices begin with the same secret as their default key. *)
FirstAgree ==
    \A d, e \in Device :
        FirstKeys[d][FirstKey] # NoKey /\ FirstKeys[d][FirstKey] = FirstKeys[e][FirstKey]

(* Point to point: who hears d is the one whom d hears. *)
Paired ==
    \A d, e, f \in Device : e \in Listeners[d] /\ d \in Listeners[f] => e = f

(* As long as the ends agree, either can read what is under way, however     *)
(* long it has been: it has the key that the message names.                  *)
SecretsInv ==
    agreed =>
        /\ Agree(crypto)
        /\ misread = {}
        /\ \A m \in mail, e \in Device :
              /\ m.body.content # Plain
              /\ crypto[e].module = m.body.content.module
              /\ crypto[e].keys[m.body.content.key] = m.body.content.secret

(* An established message was sent after an onConnected at a device that the *)
(* sender hears.                                                             *)
MailInv ==
    \A m \in mail :
        /\ m.to \in Listeners[m.body.from]
        /\ m.body.established =>
              \E e \in Device :
                  m.body.from \in Listeners[e] /\ onConnected[e][m.body.connId] > 0

DataInv ==
    /\ DataTypeOK
    /\ FirstAgree => SecretsInv
    /\ MailInv
    /\ Paired /\ RolesApart => HeardWhenEstablished

=============================================================================
