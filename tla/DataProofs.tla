----------------------------- MODULE DataProofs -----------------------------
(***************************************************************************)
(* Theorems about the application's messages and their encryption, for any *)
(* number of devices, connections, keys, messages and changes.             *)
(***************************************************************************)
EXTENDS DataInvariant, SdkProofs

-----------------------------------------------------------------------------
(* The protocol underneath *)

(* Lemma: with messages and encryption the protocol takes the steps it takes *)
(* without.                                                                  *)
LEMMA ProtocolSteps ==
    ASSUME NEW d \in Device, Protocol(d) \/ AcceptConnection(d)
    PROVE  Next
<1>1. ASSUME NEW expired \in SUBSET pendingHandshakes[d], HeartbeatPass(d, expired, {})
      PROVE  Next
  BY <1>1 DEF Next, HeartbeatThread
<1>2. ASSUME NEW m \in wire, Receive(d, m)
      PROVE  Next
  BY <1>2 DEF Next
<1>3. ASSUME NEW m \in wire, RefuseRequest(d, m)
      PROVE  Next
  BY <1>2, <1>3 DEF Receive
<1>4. ASSUME NEW m \in wire, NEW newId \in ConnectionId, AcceptRequest(d, m, newId)
      PROVE  Next
  BY <1>2, <1>4 DEF Receive
<1>5. CASE Application(d)
  BY <1>5 DEF Next
<1> QED
  BY <1>1, <1>2, <1>3, <1>4, <1>5 DEF Protocol, AcceptConnection

LEMMA DataRefinesStep == [DataNext]_<<vars, dataVars>> => [Next]_vars
<1>1. ASSUME NEW d \in Device, ChangeEncryption(d)
      PROVE  UNCHANGED vars
  BY <1>1 DEF ChangeEncryption, SetCryptoModule, AddEncryptionKey, RemoveEncryptionKey,
              SetDefaultEncryptionKey, SetConnectionEncryptionKey, EnableEncryption, Configure
<1>2. ASSUME NEW d \in Device,
             \/ \E id \in ConnectionId : SetOnMessageHandler(d, id)
             \/ \E id \in ConnectionId : Send(d, id)
             \/ \E m \in mail, looksLike \in KeyId \cup {None} : ReceiveMail(d, m, looksLike)
      PROVE  UNCHANGED vars
  BY <1>2 DEF SetOnMessageHandler, Send, ReceiveMail
<1>3. ASSUME UNCHANGED <<vars, dataVars>>
      PROVE  UNCHANGED vars
  BY <1>3
<1> QED
  BY <1>1, <1>2, <1>3, ProtocolSteps DEF DataNext

(* Sending, receiving and encrypting take nothing from the connection        *)
(* protocol and add nothing to it: what SdkProofs says of it holds here too. *)
THEOREM DataImplementsSdk == DataSpec => Spec
<1>1. DataInit => Init
  BY DEF DataInit
<1> QED
  BY <1>1, DataRefinesStep, PTL DEF DataSpec, Spec

-----------------------------------------------------------------------------
(* Handlers go with their connections *)

(* Lemma: what a device does changes no connection of another.               *)
LEMMA OnlyOwnConnections ==
    ASSUME TypeOK, NEW d \in Device, Protocol(d),
           NEW x \in Device \ {d}
    PROVE  connections'[x] = connections[x]
<1>1. ASSUME Application(d)
      PROVE  connections'[x] = connections[x]
  BY <1>1 DEF TypeOK, Application, Connect, Disconnect, Shutdown
<1>2. ASSUME NEW expired, HeartbeatPass(d, expired, {})
      PROVE  connections'[x] = connections[x]
  BY <1>2 DEF TypeOK, HeartbeatPass
<1>3. ASSUME NEW m \in wire, HandleResponse(d, m)
      PROVE  connections'[x] = connections[x]
  BY <1>3 DEF TypeOK, HandleResponse
<1>4. ASSUME NEW m \in wire, HandleFinalConfirmation(d, m) \/ HandleDisconnect(d, m)
      PROVE  connections'[x] = connections[x]
  BY <1>4 DEF TypeOK, HandleFinalConfirmation, HandleDisconnect
<1>5. ASSUME NEW m \in wire,
             \/ RefuseRequest(d, m) \/ IgnoreUnknown(d, m)
             \/ HandleHeartbeat(d, m) \/ HandleHeartbeatAck(d, m)
      PROVE  connections'[x] = connections[x]
  BY <1>5 DEF RefuseRequest, IgnoreUnknown, HandleHeartbeat, HandleHeartbeatAck, protocolVars
<1>6. ASSUME NEW m \in wire, m.body.kind # "request", Receive(d, m)
      PROVE  connections'[x] = connections[x]
  BY <1>3, <1>4, <1>5, <1>6 DEF Receive, AcceptRequest
<1> QED
  BY <1>1, <1>2, <1>5, <1>6 DEF Protocol

(* Handlers are of connections that are there.                               *)
HandlersInv ==
    /\ listening \in [Device -> SUBSET ConnectionId]
    /\ \A d \in Device : \A id \in listening[d] : Known(d, id)

(* Lemma: a handler goes with its connection.                                *)
LEMMA HandlersStep ==
    ASSUME TypeOK, HandlersInv, [DataNext]_<<vars, dataVars>>
    PROVE  HandlersInv'
<1>1. listening \in [Device -> SUBSET ConnectionId]
  BY DEF HandlersInv
<1>2. ASSUME NEW d \in Device, Protocol(d)
      PROVE  HandlersInv'
  <2>1. listening' = [listening EXCEPT ![d] = {id \in listening[d] : Known(d, id)'}]
    BY <1>2 DEF Protocol, KeptHandlers
  <2>2. listening' \in [Device -> SUBSET ConnectionId]
    BY <1>1, <2>1
  <2>3. ASSUME NEW x \in Device, NEW id \in listening'[x]
        PROVE  Known(x, id)'
    <3>1. CASE x = d
      BY <1>1, <2>1, <2>3, <3>1
    <3>2. CASE x # d
      BY <1>1, <1>2, <2>1, <2>3, <3>2, OnlyOwnConnections DEF HandlersInv, Known
    <3> QED
      BY <3>1, <3>2
  <2> QED
    BY <2>2, <2>3 DEF HandlersInv
<1>3. ASSUME NEW d \in Device, AcceptConnection(d)
      PROVE  HandlersInv'
  <2>1. PICK m \in wire, newId \in ConnectionId : 
            /\ AcceptRequest(d, m, newId)
            /\ listening' =
                  [listening EXCEPT ![d] = @ \ {Combined(m.body.connId, newId)}]
    BY <1>3 DEF AcceptConnection
  <2>2. listening' \in [Device -> SUBSET ConnectionId]
    BY <1>1, <2>1
  <2>3. ASSUME NEW x \in Device, NEW id \in listening'[x]
        PROVE  Known(x, id)'
    <3>1. id \in listening[x] /\ id \in ConnectionId
      BY <1>1, <2>1
    <3>2. connections'[x][id] = connections[x][id]
      <4>1. x # d \/ id # Combined(m.body.connId, newId)
        BY <1>1, <2>1
      <4> QED
        BY <2>1, <3>1, <4>1, AcceptDoes
    <3> QED
      BY <3>1, <3>2 DEF HandlersInv, Known
  <2> QED
    BY <2>2, <2>3 DEF HandlersInv
<1>4. ASSUME NEW d \in Device, NEW id \in ConnectionId, SetOnMessageHandler(d, id)
      PROVE  HandlersInv'
  <2>1. Known(d, id) /\ UNCHANGED connections
        /\ listening' = [listening EXCEPT ![d] = @ \cup {id}]
    BY <1>4 DEF SetOnMessageHandler, vars, protocolVars
  <2> QED
    BY <1>1, <2>1 DEF HandlersInv, Known
<1>5. ASSUME UNCHANGED <<connections, listening>>
      PROVE  HandlersInv'
  BY <1>5 DEF HandlersInv, Known
<1>6. ASSUME NEW d \in Device,
             \/ \E id \in ConnectionId : Send(d, id)
             \/ \E m \in mail, looksLike \in KeyId \cup {None} : ReceiveMail(d, m, looksLike)
             \/ ChangeEncryption(d)
      PROVE  UNCHANGED <<connections, listening>>
  BY <1>6 DEF Send, ReceiveMail, vars, protocolVars, ChangeEncryption, SetCryptoModule,
     AddEncryptionKey, RemoveEncryptionKey, SetDefaultEncryptionKey,
     SetConnectionEncryptionKey, EnableEncryption, Configure
<1>7. UNCHANGED <<vars, dataVars>> => UNCHANGED <<connections, listening>>
  BY DEF vars, protocolVars, dataVars
<1> QED
  BY <1>2, <1>3, <1>4, <1>5, <1>6, <1>7 DEF DataNext

-----------------------------------------------------------------------------
(* What sending and configuring do *)

CryptoType == crypto \in [Device -> Crypto]

(* Lemma: what is sent is plain, or encrypted under a key that is held.      *)
LEMMA EncryptedIs ==
    ASSUME CryptoType, NEW d \in Device, NEW id \in ConnectionId
    PROVE  /\ KeyForConnection(d, id) \in Selected(crypto[d])
           /\ KeyForConnection(d, id) \in KeyId
           /\ Encrypted(d, id) \in
                 {Plain} \cup [module : {"chacha20", "null"}, key : KeyId, secret : Secret]
           /\ ShouldEncrypt(d) /\ crypto[d].keys[KeyForConnection(d, id)] # NoKey =>
                 /\ Encrypted(d, id).module = crypto[d].module
                 /\ Encrypted(d, id).key = KeyForConnection(d, id)
                 /\ Encrypted(d, id).secret = crypto[d].keys[KeyForConnection(d, id)]
<1>1. PICK k : k = KeyForConnection(d, id)
  OBVIOUS
<1>2. crypto[d] \in Crypto
  BY DEF CryptoType
<1>3. k \in Selected(crypto[d]) /\ k \in KeyId
  BY <1>1, <1>2, DataAssumption DEF KeyForConnection, Selected, Crypto, None
<1>4. crypto[d].keys[k] \in Secret \cup {NoKey}
      /\ crypto[d].module \in {"none", "chacha20", "null"}
  BY <1>2, <1>3 DEF Crypto
<1>5. Encrypted(d, id) =
          IF ShouldEncrypt(d) /\ crypto[d].keys[k] # NoKey
          THEN [module |-> crypto[d].module, key |-> k, secret |-> crypto[d].keys[k]]
          ELSE Plain
  BY <1>1 DEF Encrypted
<1> QED
  BY <1>1, <1>3, <1>4, <1>5 DEF ShouldEncrypt

(* What send puts on the way.                                                *)
SentBy(c, d, id) ==
    /\ c \in [to : Device, body : Mail]
    /\ c.to \in Listeners[d] /\ c.body.from = d /\ c.body.connId = id
    /\ c.body.content = Encrypted(d, id)
    /\ c.body.established = (Active(d, id) /\ connections[d][id].opened = 0)

(* Lemma: what send does.                                                    *)
LEMMA SendDoes ==
    ASSUME CryptoType, sent \in [Device -> Nat],
           NEW d \in Device, NEW id \in ConnectionId, Send(d, id)
    PROVE  /\ mail \subseteq mail'
           /\ \A c \in mail' : c \in mail \/ SentBy(c, d, id)
           /\ sent' \in [Device -> Nat]
           /\ UNCHANGED <<vars, crypto, listening, changes, dataHistory>>
<1>1. PICK m : m = [from |-> d, connId |-> id, number |-> sent[d] + 1,
                    content |-> Encrypted(d, id),
                    established |-> Active(d, id) /\ connections[d][id].opened = 0]
  OBVIOUS
<1>2. m \in Mail /\ m.from = d
  BY <1>1, EncryptedIs DEF Mail
<1>3. mail' = mail \cup Copies(m)
  BY <1>1 DEF Send
<1>4. ASSUME NEW c \in Copies(m)
      PROVE  SentBy(c, d, id)
  <2>1. c \in [to : Device, body : Mail] /\ c.to \in Listeners[d] /\ c.body = m
    BY <1>2, SdkAssumption DEF Copies
  <2> QED
    BY <1>1, <2>1 DEF SentBy
<1>5. sent' \in [Device -> Nat]
  BY DEF Send
<1> QED
  BY <1>3, <1>4, <1>5 DEF Send

(* Lemma: a change to the encryption gives a device another configuration,   *)
(* with the module it had or without any key.                                *)
LEMMA ChangeDoes ==
    ASSUME CryptoType, NEW d \in Device, ChangeEncryption(d)
    PROVE  \E new \in Crypto :
               /\ Configure(d, new)
               /\ new.module = crypto[d].module \/ \A k \in KeyId : new.keys[k] = NoKey
<1>1. crypto[d] \in Crypto
  BY DEF CryptoType
<1>2. ASSUME NEW module \in {"none", "chacha20", "null"}, SetCryptoModule(d, module)
      PROVE  \E new \in Crypto :
                 Configure(d, new) /\ \A k \in KeyId : new.keys[k] = NoKey
  <2>1. PICK new : new = [crypto[d] EXCEPT !.module = module, !.keys = [k \in KeyId |-> NoKey]]
    OBVIOUS
  <2>2. new \in Crypto /\ \A k \in KeyId : new.keys[k] = NoKey
    BY <1>1, <2>1 DEF Crypto
  <2> QED
    BY <1>2, <2>1, <2>2 DEF SetCryptoModule
<1>3. ASSUME NEW k \in KeyId, NEW secret \in Secret \cup {NoKey},
             Configure(d, [crypto[d] EXCEPT !.keys[k] = secret])
      PROVE  \E new \in Crypto : Configure(d, new) /\ new.module = crypto[d].module
  <2>1. PICK new : new = [crypto[d] EXCEPT !.keys[k] = secret]
    OBVIOUS
  <2>2. new \in Crypto /\ new.module = crypto[d].module
    BY <1>1, <2>1 DEF Crypto
  <2> QED
    BY <1>3, <2>1, <2>2
<1>4. ASSUME NEW k \in KeyId, SetDefaultEncryptionKey(d, k)
      PROVE  \E new \in Crypto : Configure(d, new) /\ new.module = crypto[d].module
  <2>1. PICK new : new = [crypto[d] EXCEPT !.default = k]
    OBVIOUS
  <2>2. new \in Crypto /\ new.module = crypto[d].module
    BY <1>1, <2>1 DEF Crypto
  <2> QED
    BY <1>4, <2>1, <2>2 DEF SetDefaultEncryptionKey
<1>5. ASSUME NEW k \in KeyId, NEW id \in ConnectionId, SetConnectionEncryptionKey(d, id, k)
      PROVE  \E new \in Crypto : Configure(d, new) /\ new.module = crypto[d].module
  <2>1. PICK new : new = [crypto[d] EXCEPT !.ofConnection[id] = k]
    OBVIOUS
  <2>2. new \in Crypto /\ new.module = crypto[d].module
    BY <1>1, <2>1 DEF Crypto
  <2> QED
    BY <1>5, <2>1, <2>2 DEF SetConnectionEncryptionKey
<1>6. ASSUME NEW enabled \in BOOLEAN, EnableEncryption(d, enabled)
      PROVE  \E new \in Crypto : Configure(d, new) /\ new.module = crypto[d].module
  <2>1. PICK new : new = [crypto[d] EXCEPT !.enabled = enabled]
    OBVIOUS
  <2>2. new \in Crypto /\ new.module = crypto[d].module
    BY <1>1, <2>1 DEF Crypto
  <2> QED
    BY <1>6, <2>1, <2>2 DEF EnableEncryption
<1> QED
  BY <1>2, <1>3, <1>4, <1>5, <1>6 DEF ChangeEncryption, AddEncryptionKey, RemoveEncryptionKey

-----------------------------------------------------------------------------
(* Types *)

(* Lemma: every step keeps the types.                                        *)
LEMMA DataTypeStep ==
    ASSUME TypeOK, DataTypeOK, [DataNext]_<<vars, dataVars>>
    PROVE  DataTypeOK'
<1>1. HandlersInv'
  BY HandlersStep DEF DataTypeOK, HandlersInv
<1>2. CryptoType /\ sent \in [Device -> Nat]
  BY DEF DataTypeOK, CryptoType
<1>3. ASSUME UNCHANGED <<crypto, mail, sent, changes, agreed, misread, unheard>>
      PROVE  DataTypeOK'
  BY <1>1, <1>3 DEF DataTypeOK, HandlersInv
<1>4. ASSUME NEW d \in Device,
             \/ Protocol(d) \/ AcceptConnection(d)
             \/ \E id \in ConnectionId : SetOnMessageHandler(d, id)
      PROVE  DataTypeOK'
  BY <1>3, <1>4 DEF Protocol, AcceptConnection, SetOnMessageHandler, dataHistory
<1>5. ASSUME NEW d \in Device, NEW id \in ConnectionId, Send(d, id)
      PROVE  DataTypeOK'
  <2>1. mail \subseteq mail' /\ mail' \subseteq [to : Device, body : Mail]
    BY <1>2, <1>5, SendDoes DEF SentBy, DataTypeOK
  <2>2. sent' \in [Device -> Nat] /\ UNCHANGED <<crypto, changes, agreed, misread, unheard>>
    BY <1>2, <1>5, SendDoes DEF dataHistory
  <2> QED
    BY <1>1, <2>1, <2>2 DEF DataTypeOK, HandlersInv
<1>6. ASSUME NEW d \in Device, NEW m \in mail, NEW looksLike, ReceiveMail(d, m, looksLike)
      PROVE  DataTypeOK'
  <2>1. misread' \subseteq mail /\ unheard' \subseteq mail
        /\ UNCHANGED <<crypto, mail, sent, changes, agreed>>
    BY <1>6 DEF ReceiveMail, DataTypeOK
  <2> QED
    BY <1>1, <2>1 DEF DataTypeOK, HandlersInv
<1>7. ASSUME NEW d \in Device, NEW new \in Crypto, Configure(d, new)
      PROVE  DataTypeOK'
  <2>1. crypto' \in [Device -> Crypto] /\ changes' \in 0..ConfigLimit
    BY <1>7, DataAssumption DEF Configure, DataTypeOK
  <2>2. UNCHANGED <<mail, sent, misread, unheard>>
    BY <1>7 DEF Configure
  <2>3. agreed' \in BOOLEAN
    BY <1>7 DEF Configure
  <2> QED
    BY <1>1, <2>1, <2>2, <2>3 DEF DataTypeOK, HandlersInv
<1>8. ASSUME NEW d \in Device, ChangeEncryption(d)
      PROVE  DataTypeOK'
  BY <1>2, <1>7, <1>8, ChangeDoes
<1> QED
  BY <1>3, <1>4, <1>5, <1>6, <1>8 DEF DataNext, dataVars, dataHistory

-----------------------------------------------------------------------------
(* Secrets *)

(* Lemma: where the ends agree, what is sent can be read by either.          *)
LEMMA SentCanBeRead ==
    ASSUME CryptoType, Agree(crypto), NEW d \in Device, NEW id \in ConnectionId
    PROVE  /\ Encrypted(d, id) # Plain
           /\ \A e \in Device :
                 /\ crypto[e].module = Encrypted(d, id).module
                 /\ crypto[e].keys[Encrypted(d, id).key] = Encrypted(d, id).secret
<1>1. PICK k : k = KeyForConnection(d, id)
  OBVIOUS
<1>2. k \in Selected(crypto[d])
  BY <1>1, EncryptedIs
<1>3. /\ crypto[d].keys[k] # NoKey /\ crypto[d].enabled /\ crypto[d].module # "none"
      /\ \A e \in Device :
            crypto[e].module = crypto[d].module /\ crypto[e].keys[k] = crypto[d].keys[k]
  BY <1>2 DEF Agree
<1>4. /\ Encrypted(d, id).module = crypto[d].module
      /\ Encrypted(d, id).key = k /\ Encrypted(d, id).secret = crypto[d].keys[k]
  BY <1>1, <1>3, EncryptedIs DEF ShouldEncrypt
<1> QED
  BY <1>3, <1>4 DEF Plain

(* Lemma: where the ends agree, what is under way is read as it was sent.    *)
LEMMA ReadWhileAgreed ==
    ASSUME SecretsInv, agreed, NEW d \in Device, NEW m \in mail, NEW looksLike
    PROVE  Restores(d, m.body, looksLike)
<1>1. ShouldEncrypt(d)
  BY DEF SecretsInv, Agree, ShouldEncrypt
<1>2. m.body.content.module = crypto[d].module
      /\ m.body.content.secret = crypto[d].keys[m.body.content.key]
  BY DEF SecretsInv
<1> QED
  BY <1>1, <1>2 DEF Restores, KeyNamed

(* Lemma: a change after which the ends agree takes no key back, and leaves  *)
(* the module as it was.                                                     *)
LEMMA AgreeingChange ==
    ASSUME CryptoType, SecretsInv, mail \subseteq [to : Device, body : Mail],
           NEW d \in Device, NEW new \in Crypto, Configure(d, new), agreed',
           new.module = crypto[d].module \/ \A k \in KeyId : new.keys[k] = NoKey
    PROVE  SecretsInv'
<1>1. /\ agreed /\ Agree(crypto)' /\ KeepsKeys(d, new)
      /\ UNCHANGED <<mail, misread>>
      /\ crypto' = [crypto EXCEPT ![d] = new]
  BY DEF Configure, Agree
<1>2. Agree(crypto)
  BY <1>1 DEF SecretsInv
<1>3. crypto[d].default \in KeyId /\ crypto[d].default \in Selected(crypto[d])
  BY DataAssumption DEF CryptoType, Crypto, Selected, None
<1>4. crypto[d].keys[crypto[d].default] # NoKey
  BY <1>2, <1>3 DEF Agree
<1>5. new.keys[crypto[d].default] # NoKey
  BY <1>1, <1>3, <1>4 DEF KeepsKeys
<1>6. new.module = crypto[d].module
  BY <1>3, <1>5
<1>7. ASSUME NEW m \in mail, NEW e \in Device
      PROVE  /\ m.body.content # Plain
             /\ crypto'[e].module = m.body.content.module
             /\ crypto'[e].keys[m.body.content.key] = m.body.content.secret
  <2>1. /\ m.body.content # Plain
        /\ crypto[e].module = m.body.content.module
        /\ crypto[e].keys[m.body.content.key] = m.body.content.secret
    BY <1>1 DEF SecretsInv
  <2>2. m.body.content \in [module : {"chacha20", "null"}, key : KeyId, secret : Secret]
    BY <2>1 DEF Mail
  <2>3. m.body.content.key \in KeyId /\ m.body.content.secret # NoKey
    BY <2>2, DataAssumption
  <2>4. CASE e = d
    BY <1>1, <1>6, <2>1, <2>3, <2>4 DEF KeepsKeys, CryptoType
  <2>5. CASE e # d
    BY <1>1, <2>1, <2>5 DEF CryptoType
  <2> QED
    BY <2>4, <2>5
<1>8. misread' = {}
  BY <1>1 DEF SecretsInv
<1> QED
  BY <1>1, <1>7, <1>8 DEF SecretsInv, Agree

LEMMA SecretsStep ==
    ASSUME DataTypeOK, SecretsInv, [DataNext]_<<vars, dataVars>>
    PROVE  SecretsInv'
<1>1. CryptoType /\ sent \in [Device -> Nat] /\ mail \subseteq [to : Device, body : Mail]
  BY DEF DataTypeOK, CryptoType
<1>2. ASSUME UNCHANGED <<crypto, mail, agreed, misread>>
      PROVE  SecretsInv'
  BY <1>2 DEF SecretsInv, Agree
<1>3. ASSUME NEW d \in Device,
             \/ Protocol(d) \/ AcceptConnection(d)
             \/ \E id \in ConnectionId : SetOnMessageHandler(d, id)
      PROVE  SecretsInv'
  BY <1>2, <1>3 DEF Protocol, AcceptConnection, SetOnMessageHandler, dataHistory
<1>4. ASSUME NEW d \in Device, NEW id \in ConnectionId, Send(d, id)
      PROVE  SecretsInv'
  <2>1. \A c \in mail' : c \in mail \/ c.body.content = Encrypted(d, id)
    BY <1>1, <1>4, SendDoes DEF SentBy
  <2>2. UNCHANGED <<crypto, agreed, misread>>
    BY <1>1, <1>4, SendDoes DEF dataHistory
  <2>3. agreed => Agree(crypto)
    BY DEF SecretsInv
  <2>4. agreed =>
           /\ Encrypted(d, id) # Plain
           /\ \A e \in Device :
                 /\ crypto[e].module = Encrypted(d, id).module
                 /\ crypto[e].keys[Encrypted(d, id).key] = Encrypted(d, id).secret
    BY <1>1, <2>3, SentCanBeRead
  <2> QED
    BY <2>1, <2>2, <2>4 DEF SecretsInv, Agree
<1>5. ASSUME NEW d \in Device, NEW m \in mail, NEW looksLike, ReceiveMail(d, m, looksLike)
      PROVE  SecretsInv'
  <2>1. UNCHANGED <<crypto, mail, agreed>>
    BY <1>5 DEF ReceiveMail
  <2>2. agreed => misread' = misread
    BY <1>5, ReadWhileAgreed DEF ReceiveMail
  <2> QED
    BY <2>1, <2>2 DEF SecretsInv, Agree
<1>6. ASSUME NEW d \in Device, ChangeEncryption(d)
      PROVE  SecretsInv'
  <2>1. PICK new \in Crypto :
            /\ Configure(d, new)
            /\ new.module = crypto[d].module \/ \A k \in KeyId : new.keys[k] = NoKey
    BY <1>1, <1>6, ChangeDoes
  <2>2. CASE agreed'
    BY <1>1, <2>1, <2>2, AgreeingChange
  <2>3. CASE ~agreed'
    BY <2>3 DEF SecretsInv
  <2> QED
    BY <2>2, <2>3
<1> QED
  BY <1>2, <1>3, <1>4, <1>5, <1>6 DEF DataNext, dataVars, dataHistory

-----------------------------------------------------------------------------
(* Established connections *)

LEMMA MailStep ==
    ASSUME SdkInv, DataTypeOK, MailInv, [DataNext]_<<vars, dataVars>>
    PROVE  MailInv'
<1>1. TypeOK /\ IdsInv /\ WireInv /\ PeerInv /\ [Next]_vars
  BY DataRefinesStep DEF SdkInv
<1>2. CryptoType /\ sent \in [Device -> Nat] /\ mail \subseteq [to : Device, body : Mail]
  BY DEF DataTypeOK, CryptoType
<1>3. ASSUME NEW m \in mail
      PROVE  /\ m.to \in Listeners[m.body.from]
             /\ m.body.established =>
                   \E e \in Device :
                       m.body.from \in Listeners[e] /\ onConnected'[e][m.body.connId] > 0
  <2>1. m.body.connId \in ConnectionId
    BY <1>2 DEF Mail
  <2> QED
    BY <1>1, <2>1, OnConnectedStays DEF MailInv
<1>4. ASSUME UNCHANGED mail
      PROVE  MailInv'
  BY <1>3, <1>4 DEF MailInv
<1>5. ASSUME NEW d \in Device, NEW id \in ConnectionId, Send(d, id)
      PROVE  MailInv'
  <2>1. \A c \in mail' : c \in mail \/ SentBy(c, d, id)
    BY <1>2, <1>5, SendDoes
  <2>2. UNCHANGED onConnected
    BY <1>5 DEF Send, vars, history
  <2>3. Active(d, id) /\ connections[d][id].opened = 0 =>
            \E e \in Device : d \in Listeners[e] /\ onConnected[e][id] > 0
    BY <1>1 DEF PeerInv
  <2>4. ASSUME NEW c \in mail', SentBy(c, d, id)
        PROVE  /\ c.to \in Listeners[c.body.from]
               /\ c.body.established =>
                     \E e \in Device :
                         c.body.from \in Listeners[e] /\ onConnected'[e][c.body.connId] > 0
    BY <2>2, <2>3, <2>4 DEF SentBy
  <2> QED
    BY <1>3, <2>1, <2>4 DEF MailInv
<1>6. ASSUME NEW d \in Device, ChangeEncryption(d)
      PROVE  UNCHANGED mail
  BY <1>2, <1>6, ChangeDoes DEF Configure
<1>7. ASSUME NEW d \in Device,
             \/ Protocol(d) \/ AcceptConnection(d)
             \/ \E id \in ConnectionId : SetOnMessageHandler(d, id)
             \/ \E m \in mail, looksLike \in KeyId \cup {None} : ReceiveMail(d, m, looksLike)
      PROVE  UNCHANGED mail
  BY <1>7 DEF Protocol, AcceptConnection, SetOnMessageHandler, ReceiveMail
<1> QED
  BY <1>4, <1>5, <1>6, <1>7 DEF DataNext, dataVars

(* Lemma: the only message that is not handed up although it is established  *)
(* belongs to a connection its receiver has closed.                          *)
LEMMA HeardStep ==
    ASSUME SdkInv, DataTypeOK, MailInv, Paired, RolesApart, HeardWhenEstablished,
           [DataNext]_<<vars, dataVars>>
    PROVE  HeardWhenEstablished'
<1>1. TypeOK /\ IdsInv /\ WireInv /\ AnswersInv /\ [Next]_vars
  BY DataRefinesStep DEF SdkInv
<1>2. CryptoType /\ sent \in [Device -> Nat] /\ mail \subseteq [to : Device, body : Mail]
      /\ unheard \subseteq mail
  BY DEF DataTypeOK, CryptoType
<1>3. \A m \in unheard : m.body.established => m.body.connId \in closed'[m.to]
  <2>1. \A m \in unheard : m.to \in Device
    BY <1>2
  <2> QED
    BY <1>1, <2>1, ClosedGrows DEF HeardWhenEstablished
<1>4. ASSUME UNCHANGED unheard
      PROVE  HeardWhenEstablished'
  BY <1>3, <1>4 DEF HeardWhenEstablished
<1>5. ASSUME NEW e \in Device, NEW m \in mail, NEW looksLike, ReceiveMail(e, m, looksLike)
      PROVE  HeardWhenEstablished'
  <2>1. m.to = e /\ m.body.from \in Device /\ m.body.connId \in ConnectionId
        /\ UNCHANGED closed
    BY <1>2, <1>5 DEF ReceiveMail, Mail, vars, history
  <2>2. CASE UNCHANGED unheard
    BY <1>4, <2>2
  <2>3. CASE /\ ~(Known(e, m.body.connId) /\ HasHandler(e, m.body.connId))
             /\ unheard' = unheard \cup {m}
    <3>1. ASSUME m.body.established
          PROVE  m.body.connId \in closed[e]
      <4>1. PICK x \in Device :
                m.body.from \in Listeners[x] /\ onConnected[x][m.body.connId] > 0
        BY <3>1 DEF MailInv
      <4>2. x = e
        BY <2>1, <4>1 DEF MailInv, Paired
      <4> QED
        BY <1>1, <2>1, <2>3, <4>1, <4>2 DEF AnswersInv, HasHandler
    <3> QED
      BY <1>3, <2>1, <2>3, <3>1 DEF HeardWhenEstablished
  <2> QED
    BY <1>5, <2>2, <2>3 DEF ReceiveMail
<1>6. ASSUME NEW d \in Device, ChangeEncryption(d)
      PROVE  UNCHANGED unheard
  BY <1>2, <1>6, ChangeDoes DEF Configure
<1>7. ASSUME NEW d \in Device,
             \/ Protocol(d) \/ AcceptConnection(d)
             \/ \E id \in ConnectionId : SetOnMessageHandler(d, id)
             \/ \E id \in ConnectionId : Send(d, id)
      PROVE  UNCHANGED unheard
  BY <1>7 DEF Protocol, AcceptConnection, SetOnMessageHandler, Send, dataHistory
<1> QED
  BY <1>4, <1>5, <1>6, <1>7 DEF DataNext, dataVars, dataHistory

-----------------------------------------------------------------------------
(* The invariant *)

LEMMA DataInitInv == DataInit => DataInv
<1> SUFFICES ASSUME DataInit PROVE DataInv
  OBVIOUS
<1>1. DataTypeOK
  <2>1. \A d \in Device :
            [module |-> "chacha20", enabled |-> TRUE, keys |-> FirstKeys[d],
             default |-> FirstKey, ofConnection |-> [id \in ConnectionId |-> None]] \in Crypto
    BY DataAssumption DEF Crypto
  <2>2. crypto \in [Device -> Crypto]
    BY <2>1 DEF DataInit
  <2>3. /\ listening = [d \in Device |-> {}] /\ mail = {} /\ changes = 0 /\ agreed = TRUE
        /\ misread = {} /\ unheard = {} /\ sent \in [Device -> Nat]
    BY DEF DataInit
  <2> QED
    BY <2>2, <2>3, DataAssumption DEF DataTypeOK
<1>2. ASSUME FirstAgree
      PROVE  SecretsInv
  <2>1. ASSUME NEW d \in Device
        PROVE  /\ crypto[d].enabled /\ crypto[d].module = "chacha20"
               /\ crypto[d].keys = FirstKeys[d] /\ Selected(crypto[d]) = {FirstKey}
    <3>1. crypto[d] =
              [module |-> "chacha20", enabled |-> TRUE, keys |-> FirstKeys[d],
               default |-> FirstKey, ofConnection |-> [id \in ConnectionId |-> None]]
      BY DEF DataInit
    <3>2. FirstKey # None
      BY DataAssumption
    <3> QED
      BY <3>1, <3>2 DEF Selected
  <2>2. Agree(crypto)
    BY <1>2, <2>1 DEF Agree, FirstAgree
  <2> QED
    BY <2>2 DEF SecretsInv, DataInit
<1>3. MailInv /\ HeardWhenEstablished
  BY DEF DataInit, MailInv, HeardWhenEstablished
<1> QED
  BY <1>1, <1>2, <1>3 DEF DataInv

(* The inductive invariant of the data, on top of that of the connections.   *)
THEOREM DataSafe == DataSpec => []DataInv
<1>1. SdkInv /\ DataInv /\ [DataNext]_<<vars, dataVars>> => DataInv'
  <2> SUFFICES ASSUME SdkInv, DataInv, [DataNext]_<<vars, dataVars>>
               PROVE  DataInv'
    OBVIOUS
  <2>1. DataTypeOK'
    BY DataTypeStep DEF SdkInv, DataInv
  <2>2. FirstAgree => SecretsInv'
    BY SecretsStep DEF DataInv
  <2>3. MailInv'
    BY MailStep DEF DataInv
  <2>4. Paired /\ RolesApart => HeardWhenEstablished'
    BY HeardStep DEF DataInv
  <2> QED
    BY <2>1, <2>2, <2>3, <2>4 DEF DataInv, FirstAgree, Paired, RolesApart
<1> QED
  BY <1>1, DataInitInv, DataImplementsSdk, SdkSafe, PTL DEF DataSpec

(* Keys may be added and others selected while messages are under way: as    *)
(* long as what is selected is held by both and nothing is taken back, what  *)
(* is received is what was sent -- if the devices begin with the same        *)
(* default key, however many there are and however late messages come.       *)
THEOREM ReadAsSentAlways ==
    ASSUME FirstAgree
    PROVE  DataSpec => []ReadAsSent
<1>1. DataInv => ReadAsSent
  BY DEF DataInv, SecretsInv, ReadAsSent
<1> QED
  BY <1>1, DataSafe, PTL

(* What is sent over an established connection is handed up, unless the      *)
(* receiver has closed it: between pairs of devices of which one connects.   *)
THEOREM HeardWhenEstablishedAlways ==
    ASSUME Paired, RolesApart
    PROVE  DataSpec => []HeardWhenEstablished
<1>1. DataInv => HeardWhenEstablished
  BY DEF DataInv
<1> QED
  BY <1>1, DataSafe, PTL

=============================================================================
