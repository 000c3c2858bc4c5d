----------------------------- MODULE AgentSession -----------------------------
(***************************************************************************)
(* An agent behind its skills: who owns it (the session handle of          *)
(* src/ffi.rs and module/src/agent_ffi_client.cpp, or a process that       *)
(* embeds the crate), how a call finds its skill (src/skills.rs), and what *)
(* the storage and messaging skills leave on the nodes they talk to        *)
(* (src/storage.rs, src/messaging.rs).                                     *)
(*                                                                         *)
(* The module holds one session with in-memory services, blocks on every   *)
(* call and registers no skill of its own.  An embedder holds its agent on *)
(* a Codex and an nwaku node, registers what it likes, and several of its  *)
(* callers may have an upload under way.  Both nodes outlive the process.  *)
(*                                                                         *)
(* A parameter is its place in the skill's declaration.  What wallet,      *)
(* program and meta.configure calls do is SpendingPolicy's.                *)
(***************************************************************************)
EXTENDS Integers, Sequences, SequencesExt

CONSTANTS
    Hosts,       \* who may hold the agent: "module", "embedder"
    Callers,     \* the callers of an embedded agent
    Labels,      \* labels of uploads
    Groups,      \* group topics
    Faults,      \* the kinds of failed request that may happen
    MaxFaults, MaxSessions, MaxSkills, MaxUploads, MaxMessages, \* bounds
    NoUpload     \* no upload under way

FaultKinds == {"rejected", "lost"}

ASSUME ConstantsAssumption ==
    /\ Hosts \subseteq {"module", "embedder"}
    /\ Faults \subseteq FaultKinds
    /\ MaxFaults \in Nat /\ MaxSessions \in Nat /\ MaxSkills \in Nat
    /\ MaxUploads \in Nat /\ MaxMessages \in Nat

VARIABLES
    host,        \* who holds the agent in this behaviour; it never changes
    pointer,     \* AgentFfiClient::m_session: the session in use, 0 for none
    live,        \* sessions allocated and not yet freed
    registry,    \* SkillRegistry::skills
    uploads,     \* what each caller's upload under way has reached
    index,       \* what the storage backend lists
    node,        \* addresses the storage node holds
    subscribed,  \* topics the messaging node buffers
    buffer,      \* messages the messaging node would return, by topic
    budget,      \* what is left of the bounds
    mine,        \* history: addresses this session's uploads returned
    returned,    \* history: addresses returned by uploads whose node still runs
    joined,      \* history: topics this session was told it has joined
    due,         \* history: messages published to a joined topic
    read         \* history: messages a poll took from the node

ownership == <<host, pointer, live>>
storage   == <<uploads, index, node, mine, returned>>
messaging == <<subscribed, buffer, joined, due, read>>
vars == <<ownership, registry, storage, messaging, budget>>

-----------------------------------------------------------------------------
Params == {"p", "q"}
MetaNames == {"meta.skills", "meta.status", "meta.configure"}
StorageSkills == <<"upload", "download", "list", "share">>
MessagingSkills == <<"send", "join", "create_group">>
Defaults == StorageSkills \o MessagingSkills
SkillNames == ToSet(Defaults) \cup MetaNames \cup {"demo"}

Needs(name) ==
    CASE name \in {"upload", "share", "send"}           -> Params
      [] name \in {"download", "join", "create_group"}  -> {"p"}
      [] OTHER                                          -> {}

Skill == [name : SkillNames, needs : SUBSET Params, own : BOOLEAN]
Builtin(name) == [name |-> name, needs |-> Needs(name), own |-> TRUE]
WithDefaults == [i \in DOMAIN Defaults |-> Builtin(Defaults[i])]

Listed == {object.address : object \in index}
Uploading == [label : Labels, address : Nat]
Message == [topic : Groups, no : Nat]

Spend(bound) == budget[bound] > 0 /\ budget' = [budget EXCEPT ![bound] = @ - 1]
Fault(kind) == kind \in Faults /\ Spend("faults")
Remote == host = "embedder"

-----------------------------------------------------------------------------
(* Who holds the agent. *)

Init ==
    /\ host \in Hosts /\ pointer = 0 /\ live = {}
    /\ registry = <<>>
    /\ uploads = [c \in Callers |-> NoUpload]
    /\ index = {} /\ node = {} /\ mine = {} /\ returned = {}
    /\ subscribed = {} /\ buffer = {} /\ joined = {} /\ due = {} /\ read = {}
    /\ budget = [faults |-> MaxFaults, sessions |-> MaxSessions,
                 skills |-> MaxSkills, uploads |-> MaxUploads,
                 messages |-> MaxMessages]

Reuse_Never == FALSE

Reuse == pointer # 0

(* startSession, for whatever account: with a session in hand it answers   *)
(* true and keeps the one it has.  An account that does not parse gives no *)
(* session.                                                                *)
StartSession ==
    /\ ~Reuse
    /\ Remote => pointer = 0
    /\ Spend("sessions")
    /\ pointer' = budget.sessions
    /\ live' = live \cup {budget.sessions}
    /\ registry' = WithDefaults
    /\ UNCHANGED <<host, storage, messaging>>

Emptied_KeepsUploads == index' = {} /\ UNCHANGED uploads

Emptied == index' = {} /\ uploads' = [c \in Callers |-> NoUpload]

(* A session takes its in-memory services with it; a process that embeds   *)
(* the agent takes only what it kept of the nodes.                         *)
Ended ==
    /\ Emptied
    /\ registry' = <<>> /\ mine' = {} /\ joined' = {}
    /\ IF Remote
       THEN UNCHANGED <<node, returned, subscribed, buffer, due, read>>
       ELSE /\ node' = {} /\ returned' = {}
            /\ subscribed' = {} /\ buffer' = {} /\ due' = {} /\ read' = {}

Freed_KeepsPointer == live' = live \ {pointer} /\ UNCHANGED pointer

Freed == live' = live \ {pointer} /\ pointer' = 0

(* stopSession and the client's destructor, or the end of the process. *)
StopSession ==
    /\ pointer # 0
    /\ Freed
    /\ Ended
    /\ UNCHANGED <<host, budget>>

(* register needs the registry to itself: no dispatch is under way. *)
Register(skill) ==
    /\ Remote /\ pointer # 0
    /\ \A c \in Callers : uploads[c] = NoUpload
    /\ Spend("skills")
    /\ registry' = Append(registry, skill)
    /\ UNCHANGED <<ownership, storage, messaging>>

-----------------------------------------------------------------------------
(* Calls. *)

Registered(name) == {i \in DOMAIN registry : registry[i].name = name}
Newest(name) == CHOOSE i \in Registered(name) : \A j \in Registered(name) : i >= j

Find(name) == registry[Newest(name)]

(* dispatch: a required parameter must be there before the skill runs. *)
Allowed(name, given) == Find(name).needs \subseteq given

(* dispatch of a name that is not one of the reflective skills'. *)
Runs(name, own) ==
    /\ pointer \in live
    /\ name \notin MetaNames /\ Registered(name) # {}
    /\ Find(name).own = own
    /\ \E given \in SUBSET Params : Allowed(name, given)
    /\ UNCHANGED <<ownership, registry>>

(* A skill that is not the crate's runs in place of the one it shadows. *)
RunOther(name) ==
    /\ Runs(name, FALSE)
    /\ UNCHANGED <<storage, messaging, budget>>

(* storage.list, storage.download and storage.share of an object that is   *)
(* not there change nothing.  A share of an object that is only records    *)
(* the recipient, in memory, or nothing at all.                            *)
LookUp(name) ==
    /\ Runs(name, TRUE)
    /\ name \in {"list", "download", "share"}
    /\ UNCHANGED <<storage, messaging, budget>>

-----------------------------------------------------------------------------
(* storage.upload. *)

Indexed_ByLabel(label, address) ==
    {object \in index : object.label # label} \cup {[label |-> label, address |-> address]}

Indexed(label, address) == index \cup {[label |-> label, address |-> address]}

(* Every upload is sealed under a nonce of its own, so its address is new. *)
Address == MaxUploads - budget.uploads + 1

Returns(label, address) ==
    /\ index' = Indexed(label, address)
    /\ mine' = mine \cup {address}
    /\ returned' = returned \cup {address}

UploadInMemory(label) ==
    /\ ~Remote
    /\ Runs("upload", TRUE)
    /\ Spend("uploads")
    /\ node' = node \cup {Address}
    /\ Returns(label, Address)
    /\ UNCHANGED <<uploads, messaging>>

PostUpload_Indexes(label) ==
    index' = Indexed(label, Address) /\ UNCHANGED <<mine, returned>>

PostUpload(label) == UNCHANGED <<index, mine, returned>>

BeginUpload(c, label) ==
    /\ Remote
    /\ uploads[c] = NoUpload
    /\ Runs("upload", TRUE)
    /\ Spend("uploads")
    /\ uploads' = [uploads EXCEPT ![c] = [label |-> label, address |-> Address]]
    /\ PostUpload(label)
    /\ UNCHANGED <<node, messaging>>

UnderWay(c) == uploads[c] # NoUpload
Done(c) == uploads' = [uploads EXCEPT ![c] = NoUpload]

NodeStores(c) ==
    /\ UnderWay(c) /\ uploads[c].address \notin node
    /\ node' = node \cup {uploads[c].address}
    /\ UNCHANGED <<ownership, registry, uploads, index, mine, returned, messaging,
                   budget>>

UploadAnswered(c) ==
    /\ UnderWay(c) /\ uploads[c].address \in node
    /\ Returns(uploads[c].label, uploads[c].address)
    /\ Done(c)
    /\ UNCHANGED <<ownership, registry, node, messaging, budget>>

(* The node refuses the object, or the answer does not come. *)
UploadFails(c) ==
    /\ UnderWay(c)
    /\ \/ uploads[c].address \notin node /\ Fault("rejected")
       \/ Fault("lost")
    /\ Done(c)
    /\ UNCHANGED <<ownership, registry, index, node, mine, returned, messaging>>

-----------------------------------------------------------------------------
(* messaging.join, messaging.create_group, messaging.send, and polls. *)

(* A message published to topic reaches the buffer of a node that          *)
(* subscribes to it; the in-memory backend keeps every message.            *)
Publish(topic) ==
    LET message == [topic |-> topic, no |-> budget.messages] IN
    /\ Spend("messages")
    /\ buffer' = IF Remote /\ topic \notin subscribed' THEN buffer
                 ELSE buffer \cup {message}
    /\ due' = IF topic \in joined THEN due \cup {message} ELSE due
    /\ UNCHANGED <<joined, read>>

(* join: a request that subscribes the node, or fails with or without      *)
(* having done so.                                                         *)
JoinTopic(topic) ==
    /\ \/ /\ subscribed' = subscribed \cup {topic}
          /\ joined' = joined \cup {topic}
          /\ UNCHANGED budget
       \/ /\ Remote /\ Fault("rejected")
          /\ UNCHANGED <<subscribed, joined>>
       \/ /\ Remote /\ Fault("lost")
          /\ subscribed' = subscribed \cup {topic}
          /\ UNCHANGED joined
    /\ UNCHANGED <<buffer, due, read>>

CreateTopic_NoJoin(topic) ==
    joined' = joined \cup {topic} /\ UNCHANGED <<subscribed, buffer, due, read, budget>>

(* create_group: the topic follows from the members alone; creating a      *)
(* group is joining its topic, and tells the members nothing.              *)
CreateTopic(topic) == JoinTopic(topic)

Join(topic) ==
    /\ Runs("join", TRUE)
    /\ JoinTopic(topic)
    /\ UNCHANGED storage

CreateGroup(topic) ==
    /\ Runs("create_group", TRUE)
    /\ CreateTopic(topic)
    /\ UNCHANGED storage

(* A publish subscribes the node to the topic as well. *)
Send(topic) ==
    /\ Runs("send", TRUE)
    /\ subscribed' = subscribed \cup {topic}
    /\ Publish(topic)
    /\ UNCHANGED storage

PeerPublishes(topic) ==
    /\ Remote
    /\ UNCHANGED subscribed
    /\ Publish(topic)
    /\ UNCHANGED <<ownership, registry, storage>>

(* poll subscribes the node before it reads; what it reads leaves the      *)
(* node, whether or not the answer comes.  An embedder polls; the module   *)
(* offers no such call.                                                    *)
Poll(topic) ==
    LET found == {message \in buffer : message.topic = topic} IN
    /\ Remote /\ pointer # 0
    /\ subscribed' = subscribed \cup {topic}
    /\ buffer' = buffer \ found
    /\ read' = read \cup found
    /\ UNCHANGED <<ownership, registry, storage, joined, due, budget>>

-----------------------------------------------------------------------------
Next ==
    \/ StartSession \/ StopSession
    \/ \E name \in SkillNames, needs \in SUBSET Params :
          Register([name |-> name, needs |-> needs, own |-> FALSE])
    \/ \E name \in SkillNames : RunOther(name) \/ LookUp(name)
    \/ \E label \in Labels :
          \/ UploadInMemory(label)
          \/ \E c \in Callers : BeginUpload(c, label)
    \/ \E c \in Callers : NodeStores(c) \/ UploadAnswered(c) \/ UploadFails(c)
    \/ \E topic \in Groups : \/ Join(topic) \/ CreateGroup(topic) \/ Send(topic)
                             \/ PeerPublishes(topic) \/ Poll(topic)

Spec == Init /\ [][Next]_vars

-----------------------------------------------------------------------------
TypeOK ==
    /\ host \in {"module", "embedder"} /\ pointer \in Nat /\ live \subseteq Nat
    /\ registry \in Seq(Skill)
    /\ uploads \in [Callers -> Uploading \cup {NoUpload}]
    /\ index \subseteq Uploading
    /\ node \subseteq Nat /\ mine \subseteq Nat /\ returned \subseteq Nat
    /\ subscribed \subseteq Groups /\ joined \subseteq Groups
    /\ buffer \subseteq Message /\ due \subseteq Message /\ read \subseteq Message
    /\ budget \in [{"faults", "sessions", "skills", "uploads", "messages"} -> Nat]
    /\ pointer = 0 => index = {} /\ \A c \in Callers : uploads[c] = NoUpload

(* The session the client points at is the one session that was allocated  *)
(* and not freed: however starts and stops alternate, no call reaches a    *)
(* freed session and none is forgotten without being freed.                *)
OneSessionOwned == live = {pointer} \ {0}

(* An address an upload returned is listed, and so can be shared, until    *)
(* the session ends, whatever other uploads of the same label, failed      *)
(* uploads or concurrent callers did.                                      *)
ReturnedIsListed == mine \subseteq Listed

(* Whatever is listed is held by the node, and so is everything an upload  *)
(* ever returned while the node lives, across restarts of the agent: the   *)
(* index is written after the node answered, not before.                   *)
ListedIsStored == Listed \cup returned \subseteq node

(* Once told that it has joined a group, or created one, the agent's node  *)
(* gets every message published to it from then on, and keeps it until a   *)
(* poll takes it: none is published before the node listens.               *)
JoinedHears == due \subseteq buffer \cup read

=============================================================================
