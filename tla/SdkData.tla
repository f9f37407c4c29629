------------------------------ MODULE SdkData ------------------------------
(***************************************************************************)
(* The application's messages over the connections of EminentSdk, and      *)
(* their encryption: send and sendBinary, handleJsonMessage and            *)
(* handleVideoMessage, the handlers they call, the keys and the crypto     *)
(* modules.                                                                *)
(*                                                                         *)
(* A message is encrypted when it is sent and decrypted when it is         *)
(* received, which may be much later, under whatever keys are set then.    *)
(* The layers below deliver it late, repeatedly or never, in any order     *)
(* with respect to the messages of the handshake.                          *)
(***************************************************************************)
EXTENDS EminentSdk

CONSTANTS
    KeyId,       \* the numbers of keys
    Secret,      \* the keys themselves
    FirstKeys,   \* FirstKeys[d][k]: the secret d has as k to begin with, or NoKey
    FirstKey,    \* the default key to begin with
    MessageLimit,\* bound: MessageLimit[d] messages are sent by d
    ConfigLimit  \* bound: changes to the encryption, before one that may do harm

None  == 0       \* no key id
NoKey == "none"  \* no secret

ASSUME DataAssumption ==
    /\ KeyId \subseteq Nat \ {None} /\ FirstKey \in KeyId
    /\ NoKey \notin Secret
    /\ FirstKeys \in [Device -> [KeyId -> Secret \cup {NoKey}]]
    /\ MessageLimit \in [Device -> Nat]
    /\ ConfigLimit \in Nat

VARIABLES
    crypto,    \* cryptoModule_ and its keys, encryptionEnabled_, the chosen keys
    listening, \* connections opened by the peer that have an onMessage handler
    mail,      \* the application's messages, once sent
    sent,      \* how many were sent
    changes,   \* changes to the encryption
    (* What happened, for the properties: *)
    agreed,    \* so far the two ends have had what it takes to decrypt
    misread,   \* messages that were handed up other than they were sent
    unheard    \* messages that were received and not handed up

dataHistory == <<agreed, misread, unheard>>
dataVars == <<crypto, listening, mail, sent, changes, dataHistory>>

(* What a message is after encryption; `module' is "none" when it is plain.  *)
Plain == [module |-> "none", key |-> None, secret |-> NoKey]

Crypto ==
    [module       : {"none", "chacha20", "null"},
     enabled      : BOOLEAN,
     keys         : [KeyId -> Secret \cup {NoKey}],
     default      : KeyId,
     ofConnection : [ConnectionId -> KeyId \cup {None}]]

DataInit ==
    /\ Init
    /\ crypto = [d \in Device |->
          [module |-> "chacha20", enabled |-> TRUE, keys |-> FirstKeys[d],
           default |-> FirstKey, ofConnection |-> [id \in ConnectionId |-> None]]]
    /\ listening = [d \in Device |-> {}]
    /\ mail = {}
    /\ sent = [d \in Device |-> 0]
    /\ changes = 0
    /\ agreed = TRUE
    /\ misread = {}
    /\ unheard = {}

-----------------------------------------------------------------------------
(* The protocol goes on.  A handler is part of a connection: it goes when    *)
(* the connection goes or another one takes its id.                          *)

HandlersStay(d, handlers) == handlers \* mutant
KeptHandlers(d, handlers) == {id \in handlers : Known(d, id)'}

Protocol(d) ==
    /\ \/ Application(d)
       \/ \E expired \in SUBSET pendingHandshakes[d] : HeartbeatPass(d, expired, {})
       \/ \E m \in wire : m.body.kind # "request" /\ Receive(d, m)
       \/ \E m \in wire : RefuseRequest(d, m)
    /\ listening' = [listening EXCEPT ![d] = KeptHandlers(d, @)]
    /\ UNCHANGED <<crypto, mail, sent, changes, dataHistory>>

AcceptConnection(d) ==
    /\ \E m \in wire, newId \in ConnectionId :
          /\ AcceptRequest(d, m, newId)
          /\ listening' = [listening EXCEPT ![d] = @ \ {Combined(m.body.connId, newId)}]
    /\ UNCHANGED <<crypto, mail, sent, changes, dataHistory>>

(* setOnMessageHandler, of a connection opened by the peer: one opened here  *)
(* was given its handler by connect.                                         *)
SetOnMessageHandler(d, id) ==
    /\ Known(d, id) /\ connections[d][id].opened = 0
    /\ listening' = [listening EXCEPT ![d] = @ \cup {id}]
    /\ UNCHANGED <<vars, crypto, mail, sent, changes, dataHistory>>

-----------------------------------------------------------------------------
(* Encryption.  ChaCha20 writes the key's id in front of the ciphertext;     *)
(* NullCryptoModule writes it in front of the data.                          *)

ShouldEncrypt(d) == crypto[d].enabled /\ crypto[d].module # "none"

KeyForConnection(d, id) ==
    IF crypto[d].ofConnection[id] # None THEN crypto[d].ofConnection[id]
    ELSE crypto[d].default

(* encryptPayload: without the key it sends the data as they are. *)
Encrypted(d, id) ==
    LET k == KeyForConnection(d, id)
    IN  IF ShouldEncrypt(d) /\ crypto[d].keys[k] # NoKey
        THEN [module |-> crypto[d].module, key |-> k, secret |-> crypto[d].keys[k]]
        ELSE Plain

KeySelectedHere(d, m) == KeyForConnection(d, m.connId) \* mutant
KeyNamed(d, m) == m.content.key

(* ChaCha20's decrypt throws when the message is too short or does not begin *)
(* with the id of a key, and the raw payload is handed up.  What data begin  *)
(* with, `looksLike', is not kept in the model but chosen when they are read.*)
Throws(d, looksLike) == looksLike = None \/ crypto[d].keys[looksLike] = NoKey

(* Whether decryptMessageIfNeeded gives back what was sent. *)
Restores(d, m, looksLike) ==
    \/ /\ ~ShouldEncrypt(d)
       /\ m.content = Plain
    \/ /\ ShouldEncrypt(d) /\ crypto[d].module = "chacha20"
       /\ m.content = Plain /\ Throws(d, looksLike)
    \/ /\ ShouldEncrypt(d) /\ m.content.module = crypto[d].module
       /\ \/ crypto[d].module = "null"
          \/ m.content.secret = crypto[d].keys[KeyNamed(d, m)]

-----------------------------------------------------------------------------
(* send and sendBinary; PENDING connections are refused.                     *)
(* `established' is for the properties: the peer opened the connection, and  *)
(* has confirmed it.                                                         *)
Send(d, id) ==
    /\ sent[d] < MessageLimit[d]
    /\ Known(d, id) /\ connections[d][id].status # "PENDING"
    /\ sent' = [sent EXCEPT ![d] = @ + 1]
    /\ mail' = mail \cup Copies(
           [from |-> d, connId |-> id, number |-> sent[d] + 1,
            content |-> Encrypted(d, id),
            established |-> Active(d, id) /\ connections[d][id].opened = 0])
    /\ UNCHANGED <<vars, crypto, listening, changes, dataHistory>>

HasHandler(d, id) == connections[d][id].opened # 0 \/ id \in listening[d]

(* handleJsonMessage, handleVideoMessage: the connection's handler is        *)
(* called, if both exist.  The session manager has acknowledged the message  *)
(* all the same.  It stays in `mail': it may be received again.              *)
ReceiveMail(e, m, looksLike) ==
    /\ m.to = e
    /\ \/ /\ Known(e, m.body.connId) /\ HasHandler(e, m.body.connId)
          /\ misread' = IF Restores(e, m.body, looksLike) THEN misread ELSE misread \cup {m}
          /\ UNCHANGED unheard
       \/ /\ ~(Known(e, m.body.connId) /\ HasHandler(e, m.body.connId))
          /\ unheard' = unheard \cup {m}
          /\ UNCHANGED misread
    /\ UNCHANGED <<vars, crypto, listening, mail, sent, changes, agreed>>

-----------------------------------------------------------------------------
(* The application changes the encryption. *)

(* For the properties: both ends encrypt with the same module, and have the  *)
(* keys that either selects.                                                 *)
Selected(c) == ({c.default} \cup {c.ofConnection[id] : id \in ConnectionId}) \ {None}

Agree(c) ==
    \A d, e \in Device :
        /\ c[d].enabled /\ c[d].module # "none" /\ c[d].module = c[e].module
        /\ \A k \in Selected(c[d]) : c[d].keys[k] # NoKey /\ c[e].keys[k] = c[d].keys[k]

KeepsKeys(d, new) ==
    \A k \in KeyId : crypto[d].keys[k] # NoKey => new.keys[k] = crypto[d].keys[k]

Configure(d, new) ==
    /\ changes < ConfigLimit /\ agreed
    /\ changes' = changes + 1
    /\ crypto' = [crypto EXCEPT ![d] = new]
    /\ agreed' = (agreed /\ Agree(crypto') /\ KeepsKeys(d, new))
    /\ UNCHANGED <<vars, listening, mail, sent, misread, unheard>>

(* A new module has no keys. *)
SetCryptoModule(d, module) ==
    Configure(d, [crypto[d] EXCEPT !.module = module, !.keys = [k \in KeyId |-> NoKey]])

AddEncryptionKey(d, k, secret) ==
    /\ crypto[d].module # "none"
    /\ Configure(d, [crypto[d] EXCEPT !.keys[k] = secret])

RemoveEncryptionKey(d, k) ==
    /\ crypto[d].module # "none"
    /\ Configure(d, [crypto[d] EXCEPT !.keys[k] = NoKey])

SetDefaultEncryptionKey(d, k) == Configure(d, [crypto[d] EXCEPT !.default = k])

(* It asks for no connection, and nothing takes it back. *)
SetConnectionEncryptionKey(d, id, k) ==
    Configure(d, [crypto[d] EXCEPT !.ofConnection[id] = k])

EnableEncryption(d, enabled) == Configure(d, [crypto[d] EXCEPT !.enabled = enabled])

ChangeEncryption(d) ==
    \/ \E module \in {"none", "chacha20", "null"} : SetCryptoModule(d, module)
    \/ \E k \in KeyId, secret \in Secret : AddEncryptionKey(d, k, secret)
    \/ \E k \in KeyId : RemoveEncryptionKey(d, k)
    \/ \E k \in KeyId : SetDefaultEncryptionKey(d, k)
    \/ \E k \in KeyId, id \in ConnectionId : SetConnectionEncryptionKey(d, id, k)
    \/ \E enabled \in BOOLEAN : EnableEncryption(d, enabled)

-----------------------------------------------------------------------------
DataNext ==
    \E d \in Device :
        \/ Protocol(d)
        \/ AcceptConnection(d)
        \/ \E id \in ConnectionId : SetOnMessageHandler(d, id)
        \/ \E id \in ConnectionId : Send(d, id)
        \/ \E m \in mail, looksLike \in KeyId \cup {None} : ReceiveMail(d, m, looksLike)
        \/ ChangeEncryption(d)

DataSpec == DataInit /\ [][DataNext]_<<vars, dataVars>>

-----------------------------------------------------------------------------
(* Properties *)

(* The type invariant; only what is connected has a handler. *)
Mail ==
    [from : Device, connId : ConnectionId, number : Nat,
     content : {Plain} \cup [module : {"chacha20", "null"}, key : KeyId, secret : Secret],
     established : BOOLEAN]

DataTypeOK ==
    /\ crypto \in [Device -> Crypto]
    /\ listening \in [Device -> SUBSET ConnectionId]
    /\ \A d \in Device : \A id \in listening[d] : Known(d, id)
    /\ mail \subseteq [to : Device, body : Mail]
    /\ sent \in [Device -> Nat]
    /\ changes \in 0..ConfigLimit
    /\ agreed \in BOOLEAN
    /\ misread \subseteq mail /\ unheard \subseteq mail

(* Keys may be added, and either end may select another key for sending, in  *)
(* any order and with messages under way: as long as what is selected is     *)
(* held by both and nothing is taken back, everything is read as it was sent.*)
ReadAsSent == misread # {} => ~agreed

(* A device that waits for onConnectionEstablished before it sends is heard: *)
(* nothing of what it sends comes too early for the peer, it can only come   *)
(* too late.                                                                 *)
HeardWhenEstablished ==
    \A m \in unheard : m.body.established => m.body.connId \in closed[m.to]

=============================================================================
