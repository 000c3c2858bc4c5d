------------------------- MODULE AgentSession_proofs -------------------------
(***************************************************************************)
(* Proofs about AgentSession, for every value of its constants: either     *)
(* host, any number of callers, labels and groups, any faults, and any     *)
(* number of sessions, skills, uploads and messages.                       *)
(***************************************************************************)
EXTENDS AgentSession, TLAPS

(* The conjuncts of TypeOK by the part of the state they are about, with    *)
(* the two facts the types rest on: the session in use is the one that is   *)
(* live, and no more uploads are left than there were.                      *)
SessionOK ==
    /\ host \in {"module", "embedder"} /\ pointer \in Nat
    /\ live = {pointer} \ {0}
    /\ pointer = 0 => index = {} /\ \A c \in Callers : uploads[c] = NoUpload
StorageOK ==
    /\ uploads \in [Callers -> Uploading \cup {NoUpload}]
    /\ index \subseteq Uploading
    /\ node \subseteq Nat /\ mine \subseteq Nat /\ returned \subseteq Nat
MessagingOK ==
    /\ subscribed \subseteq Groups /\ joined \subseteq Groups
    /\ buffer \subseteq Message /\ due \subseteq Message /\ read \subseteq Message
BudgetOK ==
    /\ budget \in [{"faults", "sessions", "skills", "uploads", "messages"} -> Nat]
    /\ budget.uploads <= MaxUploads
RegistryOK == registry \in Seq(Skill)

Typed == SessionOK /\ StorageOK /\ MessagingOK /\ BudgetOK /\ RegistryOK

LEMMA TypedIsTypeOK == Typed => TypeOK /\ OneSessionOwned
BY DEF Typed, SessionOK, StorageOK, MessagingOK, BudgetOK, RegistryOK, TypeOK,
       OneSessionOwned

LEMMA InitTyped == Init => Typed
<1> SUFFICES ASSUME Init PROVE Typed
  OBVIOUS
<1> USE ConstantsAssumption DEF ConstantsAssumption, Init
<1>1. SessionOK /\ StorageOK /\ MessagingOK
  BY DEF SessionOK, StorageOK, MessagingOK
<1>2. BudgetOK /\ RegistryOK
  BY DEF BudgetOK, RegistryOK
<1>3. QED
  BY <1>1, <1>2 DEF Typed

LEMMA SpendType ==
    ASSUME BudgetOK, NEW bound \in {"faults", "sessions", "skills", "uploads", "messages"},
           Spend(bound)
    PROVE  BudgetOK'
BY ConstantsAssumption DEF BudgetOK, Spend, ConstantsAssumption

(* The skills every session starts with are well formed.                    *)
LEMMA DefaultsType == WithDefaults \in Seq(Skill)
<1>1. Defaults \in Seq(ToSet(Defaults)) /\ DOMAIN Defaults = 1 .. Len(Defaults)
  BY DEF Defaults, StorageSkills, MessagingSkills, ToSet
<1>2. ASSUME NEW i \in DOMAIN Defaults
      PROVE  Builtin(Defaults[i]) \in Skill
  <2>1. Defaults[i] \in SkillNames
    BY <1>2 DEF SkillNames, ToSet
  <2>2. Needs(Defaults[i]) \in SUBSET Params
    BY DEF Needs, Params
  <2>3. QED
    BY <2>1, <2>2 DEF Builtin, Skill
<1>3. Len(Defaults) \in Nat
  BY <1>1
<1>4. QED
  BY <1>1, <1>2, <1>3 DEF WithDefaults

(* A call runs on the live session.                                         *)
LEMMA RunsOnLive ==
    ASSUME Typed, NEW name, NEW own, Runs(name, own)
    PROVE  /\ pointer # 0
           /\ UNCHANGED <<host, pointer, live, registry>>
           /\ RegistryOK'
<1>1. pointer # 0
  BY DEF Runs, Typed, SessionOK
<1>2. QED
  BY <1>1 DEF Runs, ownership, Typed, RegistryOK

LEMMA AddressType ==
    ASSUME BudgetOK
    PROVE  Address \in Nat
BY ConstantsAssumption DEF BudgetOK, Address, ConstantsAssumption

LEMMA ReturnsType ==
    ASSUME StorageOK, NEW label \in Labels, NEW address \in Nat, Returns(label, address)
    PROVE  /\ index' \subseteq Uploading
           /\ mine' \subseteq Nat /\ returned' \subseteq Nat
BY DEF StorageOK, Returns, Indexed, Uploading

LEMMA PublishType ==
    ASSUME MessagingOK, BudgetOK, NEW topic \in Groups, Publish(topic),
           subscribed' \subseteq Groups
    PROVE  MessagingOK' /\ BudgetOK'
<1>1. [topic |-> topic, no |-> budget.messages] \in Message
  BY DEF BudgetOK, Message
<1>2. BudgetOK'
  BY SpendType DEF Publish
<1>3. QED
  BY <1>1, <1>2 DEF Publish, MessagingOK

LEMMA JoinType ==
    ASSUME MessagingOK, BudgetOK, NEW topic \in Groups, JoinTopic(topic)
    PROVE  MessagingOK' /\ BudgetOK'
<1>1. BudgetOK'
  BY SpendType DEF JoinTopic, Fault, BudgetOK
<1>2. QED
  BY <1>1 DEF JoinTopic, MessagingOK

LEMMA StepTyped == Typed /\ [Next]_vars => Typed'
<1> SUFFICES ASSUME Typed, [Next]_vars
             PROVE  Typed'
  OBVIOUS
<1>0. SessionOK /\ StorageOK /\ MessagingOK /\ BudgetOK /\ RegistryOK
  BY DEF Typed
<1> USE DEF Typed
<1>1. CASE StartSession
  <2>1. BudgetOK' /\ budget.sessions \in Nat \ {0}
    BY <1>0, <1>1, SpendType DEF StartSession, Spend, BudgetOK
  <2>2. SessionOK'
    BY <1>0, <1>1, <2>1 DEF StartSession, Reuse, storage, SessionOK
  <2>3. RegistryOK'
    BY <1>0, <1>1, DefaultsType DEF StartSession, RegistryOK
  <2>4. QED
    BY <1>0, <1>1, <2>1, <2>2, <2>3
       DEF StartSession, storage, messaging, StorageOK, MessagingOK
<1>2. CASE StopSession
  <2>1. SessionOK'
    BY <1>0, <1>2 DEF StopSession, Freed, Ended, Emptied, SessionOK
  <2>2. StorageOK'
    BY <1>0, <1>2 DEF StopSession, Ended, Emptied, StorageOK
  <2>3. MessagingOK'
    BY <1>0, <1>2 DEF StopSession, Ended, MessagingOK
  <2>4. QED
    BY <1>0, <1>2, <2>1, <2>2, <2>3 DEF StopSession, Ended, BudgetOK, RegistryOK
<1>3. ASSUME NEW name \in SkillNames, NEW needs \in SUBSET Params,
             Register([name |-> name, needs |-> needs, own |-> FALSE])
      PROVE  Typed'
  <2>1. [name |-> name, needs |-> needs, own |-> FALSE] \in Skill
    BY DEF Skill
  <2>2. BudgetOK'
    BY <1>0, <1>3, SpendType DEF Register
  <2>3. RegistryOK'
    BY <1>0, <1>3, <2>1 DEF Register, RegistryOK
  <2>4. QED
    BY <1>0, <1>3, <2>2, <2>3
       DEF Register, ownership, storage, messaging, SessionOK, StorageOK, MessagingOK
<1>4. ASSUME NEW name \in SkillNames, RunOther(name) \/ LookUp(name)
      PROVE  Typed'
  <2>1. UNCHANGED <<host, pointer, live>> /\ RegistryOK'
    BY <1>4, RunsOnLive DEF RunOther, LookUp
  <2>2. QED
    BY <1>0, <1>4, <2>1
       DEF RunOther, LookUp, storage, messaging, SessionOK, StorageOK, MessagingOK, BudgetOK
<1>5. ASSUME NEW label \in Labels, UploadInMemory(label)
      PROVE  Typed'
  <2>1. pointer # 0 /\ UNCHANGED <<host, pointer, live>> /\ RegistryOK'
    BY <1>5, RunsOnLive DEF UploadInMemory
  <2>2. Address \in Nat /\ BudgetOK'
    BY <1>0, <1>5, AddressType, SpendType DEF UploadInMemory
  <2>3. SessionOK'
    BY <1>0, <2>1 DEF SessionOK
  <2>4. StorageOK'
    BY <1>0, <1>5, <2>2, ReturnsType DEF UploadInMemory, StorageOK
  <2>5. QED
    BY <1>0, <1>5, <2>1, <2>2, <2>3, <2>4 DEF UploadInMemory, messaging, MessagingOK
<1>6. ASSUME NEW label \in Labels, NEW c \in Callers, BeginUpload(c, label)
      PROVE  Typed'
  <2>1. pointer # 0 /\ UNCHANGED <<host, pointer, live>> /\ RegistryOK'
    BY <1>6, RunsOnLive DEF BeginUpload
  <2>2. Address \in Nat /\ BudgetOK'
    BY <1>0, <1>6, AddressType, SpendType DEF BeginUpload
  <2>3. [label |-> label, address |-> Address] \in Uploading
    BY <2>2 DEF Uploading
  <2>4. SessionOK'
    BY <1>0, <2>1 DEF SessionOK
  <2>5. StorageOK'
    BY <1>0, <1>6, <2>3 DEF BeginUpload, PostUpload, StorageOK
  <2>6. QED
    BY <1>0, <1>6, <2>1, <2>2, <2>4, <2>5 DEF BeginUpload, messaging, MessagingOK
<1>7. ASSUME NEW c \in Callers, NodeStores(c)
      PROVE  Typed'
  <2>1. uploads[c].address \in Nat
    BY <1>0, <1>7 DEF NodeStores, UnderWay, StorageOK, Uploading
  <2>2. QED
    BY <1>0, <1>7, <2>1
       DEF NodeStores, ownership, messaging, SessionOK, StorageOK, MessagingOK, BudgetOK,
           RegistryOK
<1>8. ASSUME NEW c \in Callers, UploadAnswered(c)
      PROVE  Typed'
  <2>1. uploads[c].label \in Labels /\ uploads[c].address \in Nat
    BY <1>0, <1>8 DEF UploadAnswered, UnderWay, StorageOK, Uploading
  <2>2. StorageOK'
    BY <1>0, <1>8, <2>1, ReturnsType DEF UploadAnswered, Done, StorageOK
  <2>3. pointer # 0
    BY <1>0, <1>8 DEF UploadAnswered, UnderWay, SessionOK
  <2>4. QED
    BY <1>0, <1>8, <2>2, <2>3
       DEF UploadAnswered, ownership, messaging, SessionOK, MessagingOK, BudgetOK, RegistryOK
<1>9. ASSUME NEW c \in Callers, UploadFails(c)
      PROVE  Typed'
  <2>1. BudgetOK'
    BY <1>0, <1>9, SpendType DEF UploadFails, Fault
  <2>2. SessionOK'
    BY <1>0, <1>9 DEF UploadFails, Done, ownership, SessionOK, StorageOK
  <2>3. QED
    BY <1>0, <1>9, <2>1, <2>2
       DEF UploadFails, Done, messaging, StorageOK, MessagingOK, RegistryOK
<1>10. ASSUME NEW topic \in Groups, Join(topic) \/ CreateGroup(topic)
       PROVE  Typed'
  <2>1. UNCHANGED <<host, pointer, live>> /\ RegistryOK'
    BY <1>10, RunsOnLive DEF Join, CreateGroup
  <2>2. MessagingOK' /\ BudgetOK'
    BY <1>0, <1>10, JoinType DEF Join, CreateGroup, CreateTopic
  <2>3. QED
    BY <1>0, <1>10, <2>1, <2>2 DEF Join, CreateGroup, storage, SessionOK, StorageOK
<1>11. ASSUME NEW topic \in Groups, Send(topic)
       PROVE  Typed'
  <2>1. UNCHANGED <<host, pointer, live>> /\ RegistryOK'
    BY <1>11, RunsOnLive DEF Send
  <2>2. MessagingOK' /\ BudgetOK'
    BY <1>0, <1>11, PublishType DEF Send, MessagingOK
  <2>3. QED
    BY <1>0, <1>11, <2>1, <2>2 DEF Send, storage, SessionOK, StorageOK
<1>12. ASSUME NEW topic \in Groups, PeerPublishes(topic)
       PROVE  Typed'
  <2>1. MessagingOK' /\ BudgetOK'
    BY <1>0, <1>12, PublishType DEF PeerPublishes, MessagingOK
  <2>2. QED
    BY <1>0, <1>12, <2>1 DEF PeerPublishes, ownership, storage, SessionOK, StorageOK,
                             RegistryOK
<1>13. ASSUME NEW topic \in Groups, Poll(topic)
       PROVE  Typed'
  BY <1>0, <1>13 DEF Poll, ownership, storage, SessionOK, StorageOK, MessagingOK, BudgetOK,
                     RegistryOK
<1>14. CASE UNCHANGED vars
  BY <1>0, <1>14 DEF vars, ownership, storage, messaging, SessionOK, StorageOK, MessagingOK,
                     BudgetOK, RegistryOK
<1>15. QED
  BY <1>1, <1>2, <1>3, <1>4, <1>5, <1>6, <1>7, <1>8, <1>9, <1>10, <1>11, <1>12, <1>13, <1>14
     DEF Next

(* Every variable keeps its type; without a session nothing is listed and   *)
(* no upload is under way (src/ffi.rs, src/storage.rs).                      *)
THEOREM TypeCorrect == Spec => []TypeOK
<1>1. Typed => TypeOK
  BY TypedIsTypeOK
<1>2. QED
  BY <1>1, InitTyped, StepTyped, PTL DEF Spec

(* The session the client points at is the one session that was allocated  *)
(* and not freed, however starts and stops alternate                        *)
(* (module/src/agent_ffi_client.cpp).                                        *)
THEOREM OwnsOneSession == Spec => []OneSessionOwned
<1>1. Typed => OneSessionOwned
  BY TypedIsTypeOK
<1>2. QED
  BY <1>1, InitTyped, StepTyped, PTL DEF Spec

-----------------------------------------------------------------------------
(* Uploads.  What a step does to the index, the node and the two histories.  *)

(* One object is listed and its address returned, once the node holds it.    *)
Returned(label, address) == /\ Returns(label, address)
                            /\ node \subseteq node' /\ address \in node'
(* Nothing is listed or returned anew; the node may come to hold more.       *)
Stores == UNCHANGED <<index, mine, returned>> /\ node \subseteq node'
(* The session ends, and with it its list; its in-memory node, if that is    *)
(* what it had, ends too.                                                    *)
Forgets == /\ index' = {} /\ mine' = {}
           /\ \/ UNCHANGED <<node, returned>>
              \/ node' = {} /\ returned' = {}

LEMMA StorageSteps ==
    ASSUME [Next]_vars
    PROVE  Stores \/ Forgets \/ \E label, address : Returned(label, address)
<1>1. CASE StopSession
  BY <1>1 DEF StopSession, Ended, Emptied, Forgets
<1>2. ASSUME NEW label \in Labels, UploadInMemory(label)
      PROVE  Returned(label, Address)
  BY <1>2 DEF UploadInMemory, Returned
<1>3. ASSUME NEW c \in Callers, UploadAnswered(c)
      PROVE  Returned(uploads[c].label, uploads[c].address)
  BY <1>3 DEF UploadAnswered, Returned
<1>4. ASSUME NEW c \in Callers, NodeStores(c) \/ UploadFails(c)
      PROVE  Stores
  BY <1>4 DEF NodeStores, UploadFails, Stores
<1>5. ASSUME NEW label \in Labels, NEW c \in Callers, BeginUpload(c, label)
      PROVE  Stores
  BY <1>5 DEF BeginUpload, PostUpload, Stores
<1>6. ASSUME NEW topic, \/ Join(topic) \/ CreateGroup(topic) \/ Send(topic)
                        \/ PeerPublishes(topic) \/ Poll(topic)
      PROVE  Stores
  BY <1>6 DEF Join, CreateGroup, Send, PeerPublishes, Poll, storage, Stores
<1>7. ASSUME NEW name, RunOther(name) \/ LookUp(name)
      PROVE  Stores
  BY <1>7 DEF RunOther, LookUp, storage, Stores
<1>8. ASSUME NEW skill, Register(skill)
      PROVE  Stores
  BY <1>8 DEF Register, storage, Stores
<1>9. CASE StartSession \/ UNCHANGED vars
  BY <1>9 DEF StartSession, vars, storage, Stores
<1>10. QED
  BY <1>1, <1>2, <1>3, <1>4, <1>5, <1>6, <1>7, <1>8, <1>9 DEF Next

(* An address an upload returned is listed, and so can be shared, until     *)
(* the session ends, whatever other uploads of the same label, failed       *)
(* uploads or concurrent callers did (src/storage.rs).                       *)
THEOREM ReturnedStaysListed == Spec => []ReturnedIsListed
<1>1. Init => ReturnedIsListed
  BY DEF Init, ReturnedIsListed
<1>2. ReturnedIsListed /\ [Next]_vars => ReturnedIsListed'
  <2> SUFFICES ASSUME ReturnedIsListed, [Next]_vars
               PROVE  ReturnedIsListed'
    OBVIOUS
  <2>1. CASE Stores \/ Forgets
    BY <2>1 DEF Stores, Forgets, ReturnedIsListed, Listed
  <2>2. ASSUME NEW label, NEW address, Returned(label, address)
        PROVE  ReturnedIsListed'
    BY <2>2 DEF Returned, Returns, Indexed, ReturnedIsListed, Listed
  <2>3. QED
    BY <2>1, <2>2, StorageSteps
<1>3. QED
  BY <1>1, <1>2, PTL DEF Spec

(* Whatever is listed is held by the node, and so is everything an upload   *)
(* ever returned while the node lives, across restarts of the agent: the    *)
(* index is written after the node answered (src/storage.rs).                *)
THEOREM ListedStaysStored == Spec => []ListedIsStored
<1>1. Init => ListedIsStored
  BY DEF Init, ListedIsStored, Listed
<1>2. ListedIsStored /\ [Next]_vars => ListedIsStored'
  <2> SUFFICES ASSUME ListedIsStored, [Next]_vars
               PROVE  ListedIsStored'
    OBVIOUS
  <2>1. CASE Stores \/ Forgets
    BY <2>1 DEF Stores, Forgets, ListedIsStored, Listed
  <2>2. ASSUME NEW label, NEW address, Returned(label, address)
        PROVE  ListedIsStored'
    BY <2>2 DEF Returned, Returns, Indexed, ListedIsStored, Listed
  <2>3. QED
    BY <2>1, <2>2, StorageSteps
<1>3. QED
  BY <1>1, <1>2, PTL DEF Spec

-----------------------------------------------------------------------------
(* Groups.  The node listens to every topic the agent believes it joined,    *)
(* the module's in-memory one always does.                                   *)

Listens == joined \subseteq subscribed

Hears == JoinedHears /\ Listens

(* The steps on the topics, each with what it leaves of what was published.  *)
Publishes == \E topic \in Groups : subscribed \subseteq subscribed' /\ Publish(topic)
Subscribes == /\ subscribed \subseteq subscribed' /\ joined' \subseteq joined \cup subscribed'
              /\ due' = due /\ buffer \cup read \subseteq buffer' \cup read'
Leaves == /\ joined' = {}
          /\ UNCHANGED <<buffer, due, read>> \/ due' = {}

LEMMA TopicSteps ==
    ASSUME [Next]_vars
    PROVE  Publishes \/ Subscribes \/ Leaves
<1>1. CASE StopSession
  BY <1>1 DEF StopSession, Ended, Leaves
<1>2. ASSUME NEW topic \in Groups, Send(topic) \/ PeerPublishes(topic)
      PROVE  Publishes
  BY <1>2 DEF Send, PeerPublishes, Publishes
<1>3. ASSUME NEW topic \in Groups, Join(topic) \/ CreateGroup(topic)
      PROVE  Subscribes
  BY <1>3 DEF Join, CreateGroup, CreateTopic, JoinTopic, Subscribes
<1>4. ASSUME NEW topic \in Groups, Poll(topic)
      PROVE  Subscribes
  BY <1>4 DEF Poll, Subscribes
<1>5. ASSUME UNCHANGED messaging
      PROVE  Subscribes
  BY <1>5 DEF messaging, Subscribes
<1>6. ASSUME NEW label, \/ UploadInMemory(label)
                        \/ \E c \in Callers : BeginUpload(c, label)
      PROVE  Subscribes
  BY <1>5, <1>6 DEF UploadInMemory, BeginUpload
<1>7. ASSUME NEW c \in Callers, NodeStores(c) \/ UploadAnswered(c) \/ UploadFails(c)
      PROVE  Subscribes
  BY <1>5, <1>7 DEF NodeStores, UploadAnswered, UploadFails
<1>8. ASSUME NEW name, RunOther(name) \/ LookUp(name)
      PROVE  Subscribes
  BY <1>5, <1>8 DEF RunOther, LookUp
<1>9. ASSUME NEW skill, Register(skill)
      PROVE  Subscribes
  BY <1>5, <1>9 DEF Register
<1>10. CASE StartSession \/ UNCHANGED vars
  BY <1>5, <1>10 DEF StartSession, vars
<1>11. QED
  BY <1>1, <1>2, <1>3, <1>4, <1>6, <1>7, <1>8, <1>9, <1>10 DEF Next

(* Once told that it has joined a group, or created one, the agent's node   *)
(* gets every message published to it from then on (src/messaging.rs).       *)
THEOREM JoinedAgentHears == Spec => []JoinedHears
<1>1. Init => Hears
  BY DEF Init, Hears, JoinedHears, Listens
<1>2. Hears /\ [Next]_vars => Hears'
  <2> SUFFICES ASSUME Hears, [Next]_vars
               PROVE  Hears'
    OBVIOUS
  <2>1. CASE Publishes
    BY <2>1 DEF Publishes, Publish, Hears, JoinedHears, Listens
  <2>2. CASE Subscribes
    BY <2>2 DEF Subscribes, Hears, JoinedHears, Listens
  <2>3. CASE Leaves
    BY <2>3 DEF Leaves, Hears, JoinedHears, Listens
  <2>4. QED
    BY <2>1, <2>2, <2>3, TopicSteps
<1>3. Hears => JoinedHears
  BY DEF Hears
<1>4. QED
  BY <1>1, <1>2, <1>3, PTL DEF Spec

=============================================================================
