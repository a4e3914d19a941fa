------------------------------ MODULE Journey ------------------------------
(***************************************************************************)
(* What becomes of a value between the one who types it and the one who    *)
(* uses it, through the codecs of module Message:                          *)
(*   - a post, from a client (C or Java), directly or through the manager, *)
(*     to the list of a streamer, the DIFF and the OLDM built from it; or  *)
(*     from the streamer's own file;                                       *)
(*   - the addresses and ports of a streamer, from its configuration to    *)
(*     the register, and to those who connect to it;                       *)
(*   - the number of messages asked for, to the streamer;                  *)
(*   - the arguments of the manager, to its parameters, and the number of  *)
(*     streamers it announces.                                             *)
(* Journeys share nothing: a behaviour is one of them.                     *)
(***************************************************************************)
EXTENDS Message

CONSTANTS
    Posts,          \* what clients post
    FilePosts,      \* what streamers find in their files
    Registrations,  \* how streamers are configured
    Asked,          \* numbers of messages asked for
    Arguments,      \* arguments of the manager
    MaxDelay        \* NB_SECONDS_ONE_DAY: 86400

ASSUME JourneyAssumption ==
    /\ Posts \subseteq [kind : {"post"}, client : {"c", "java"}, via : BOOLEAN, id : Line, text : Line]
    /\ FilePosts \subseteq [kind : {"file"}, id : Line, text : Line]
    /\ Registrations \subseteq [kind : {"regi"}, id : Line, port1 : Int, port2 : Int,
                                ip1 : Address, ip2 : Address]
    /\ Asked \subseteq [kind : {"last"}, client : {"c", "java"}, nb : -(INT_MAX + 1)..INT_MAX]
    /\ Arguments \subseteq [kind : {"main"}, delay : Int \cup {None}, args : Seq(Int \cup {None})]
    /\ MaxDelay \in Nat

Jobs == Posts \cup FilePosts \cup Registrations \cup Asked \cup Arguments

VARIABLES
    job,    \* what is typed
    at,     \* where it is
    wire,   \* the last message built from it
    out     \* what its last user has of it

vars == <<job, at, wire, out>>

Init ==
    /\ job \in Jobs
    /\ at = "typed"
    /\ wire = None
    /\ out = None

\* A step of the journey of a kind of job.
Go(kind, from, to) ==
    /\ job.kind = kind
    /\ at = from /\ at' = to
    /\ UNCHANGED job

\* A message is built and goes on, or an exception ends the journey.
Build(kind, from, to, m) ==
    /\ Go(kind, from, IF m = None THEN "lost" ELSE to)
    /\ wire' = IF m = None THEN wire ELSE m
    /\ UNCHANGED out

-----------------------------------------------------------------------------
(* A post.                                                                 *)

\* send_mess_to_streamer and mess_diff in C; in Java the line that is typed.
Typed ==
    IF job.client = "c"
    THEN create_message("MESS", [id |-> job.id, text |-> job.text])
    ELSE createPost("MESS", 0, PostLine(job.id, job.text))

PostIsSent == Build("post", "typed", IF job.via THEN "manager" ELSE "streamer", Typed)

\* Variant: the id is built again without its last byte.
ParseCut(m) ==
    [id |-> SubSeq(Extract(m, MSG_TYPE_SIZE + 1, MSG_ID_SIZE), 1, MSG_ID_SIZE - 1),
     text |-> Extract(m, MSG_TYPE_SIZE + 2 + MSG_ID_SIZE, MSG_MESS_SIZE)]

Parse(m) ==
    [id |-> Extract(m, MSG_TYPE_SIZE + 1, MSG_ID_SIZE),
     text |-> Extract(m, MSG_TYPE_SIZE + 2 + MSG_ID_SIZE, MSG_MESS_SIZE)]

\* handle_tcp, handle_mess and send_mess_to_streamer.
ManagerRelays ==
    Build("post", "manager", "streamer",
          IF verify_msg(wire) THEN create_message("MESS", Parse(wire)) ELSE None)

\* ClientService reads a line, builds the message again and adds the post.
PostIsAdded ==
    LET m == createPost("MESS", 0, LineOf(wire))
    IN  /\ Go("post", "streamer", IF m = None THEN "lost" ELSE "posted")
        /\ out' = IF m = None THEN out ELSE [id |-> getID(m), text |-> getMsg(m)]
        /\ UNCHANGED wire

\* addMessFromFile, or addMess in main.
PostIsRead ==
    /\ Go("file", "typed", "posted")
    /\ out' = [id |-> job.id, text |-> job.text]
    /\ UNCHANGED wire

\* MulticastService: the exception ends the broadcast.
PostIsBroadcast ==
    LET m == createPost("DIFF", 0, PostLine(out.id, out.text))
    IN  \E kind \in {"post", "file"} :
            /\ Go(kind, "posted", IF m = None THEN "mute" ELSE "diff")
            /\ wire' = IF m = None THEN wire ELSE m
            /\ UNCHANGED out

PostIsRepeated ==
    \E kind \in {"post", "file"} : Build(kind, "diff", "oldm", DiffToOldm(wire))

-----------------------------------------------------------------------------
(* A registration.                                                         *)

RegiIsSent == Build("regi", "typed", "manager", createRegi(job))

\* handle_tcp and register_broadcaster.
RegiIsListed ==
    Build("regi", "manager", "listed",
          IF verify_msg(wire) THEN [wire EXCEPT ![1] = TypeField("ITEM")] ELSE None)

\* Variant: the port is taken for the one of the multicast.
TcpPortFirst(m) == Extract(m, MSG_TYPE_SIZE + 3 + MSG_ID_SIZE + MSG_IP_SIZE, MSG_PORT_SIZE)

TcpPort(m) ==
    Extract(m, MSG_TYPE_SIZE + 5 + MSG_ID_SIZE + 2 * MSG_IP_SIZE + MSG_PORT_SIZE, MSG_PORT_SIZE)

TcpAddress(m) ==
    Extract(m, MSG_TYPE_SIZE + 4 + MSG_ID_SIZE + MSG_IP_SIZE + MSG_PORT_SIZE, MSG_IP_SIZE)

\* handle_mess and a client in C read the address with inet_aton; a client
\* in Java reads its fields as decimal.
StreamerIsReached ==
    \E reader \in {"c", "java"} :
        LET ip == IF reader = "c" THEN inet_aton(TcpAddress(wire)) ELSE TcpAddress(wire)
        IN  /\ Go("regi", "listed", IF ip = None THEN "lost" ELSE "reached")
            /\ out' = [reader |-> reader, ip |-> ip, port |-> set_uint_from_string(TcpPort(wire))]
            /\ UNCHANGED wire

-----------------------------------------------------------------------------
(* A number of messages, and the arguments of the manager.                 *)

LastIsSent ==
    Build("last", "typed", "streamer",
          IF job.client = "c" THEN create_message("LAST", [nb |-> job.nb]) ELSE createLast(job.nb))

LastIsRead ==
    /\ Go("last", "streamer", "asked")
    /\ out' = getNbMsg(wire)
    /\ UNCHANGED wire

\* Variant: one hundred streamers are accepted.
CapacityOfPlusOne(nb_diff) == IF nb_diff = None \/ nb_diff > 100 \/ nb_diff < 1 THEN None ELSE nb_diff

CapacityOf(nb_diff) == IF nb_diff = None \/ nb_diff > 99 \/ nb_diff < 1 THEN None ELSE nb_diff

DelayOf(optarg) ==
    IF optarg = None THEN 30
    ELSE LET d == set_uint_from_string(optarg)
         IN  IF d = None \/ d > MaxDelay THEN None ELSE d

\* None where the manager refuses to start.
Options ==
    IF Len(job.args) # 2
    THEN [port |-> None, capacity |-> None, delay |-> None]
    ELSE [port     |-> set_uint_from_string(job.args[1]),
          capacity |-> CapacityOf(set_uint_from_string(job.args[2])),
          delay    |-> DelayOf(job.delay)]

ManagerStarts ==
    /\ Go("main", "typed", "started")
    /\ None \notin {Options.port, Options.capacity, Options.delay}
    /\ out' = [Options EXCEPT !.port = htons(Options.port)]
    /\ UNCHANGED wire

\* usage.
ManagerExits ==
    /\ Go("main", "typed", "lost")
    /\ None \in {Options.port, Options.capacity, Options.delay}
    /\ UNCHANGED <<wire, out>>

\* handle_list, with any number of slots taken, and what clients read of it.
ListIsCounted ==
    /\ Go("main", "started", "counted")
    /\ \E nb \in 0..out.capacity :
        /\ wire' = create_message("LINB", [nb |-> nb])
        /\ out' = [listed |-> nb, read |-> getNumDiff(wire')]

-----------------------------------------------------------------------------
Next ==
    \/ PostIsSent \/ ManagerRelays \/ PostIsAdded
    \/ PostIsRead \/ PostIsBroadcast \/ PostIsRepeated
    \/ RegiIsSent \/ RegiIsListed \/ StreamerIsReached
    \/ LastIsSent \/ LastIsRead
    \/ ManagerStarts \/ ManagerExits \/ ListIsCounted

Spec == Init /\ [][Next]_vars

-----------------------------------------------------------------------------
(* Correctness.                                                            *)

\* The types: a journey is at a place of its kind, and what it carries is a
\* message of a width that msglen knows.
TypeOK ==
    /\ job \in Jobs
    /\ at \in {"typed", "manager", "streamer", "posted", "mute", "diff", "oldm", "lost",
               "listed", "reached", "asked", "started", "counted"}
    /\ wire = None \/ Length(wire) = msglen(wire[1].val)
    /\ at \in {"posted", "mute"} => out.id \in Line /\ out.text \in Line

Cut(s, w) == SubSeq(s, 1, IF Len(s) < w THEN Len(s) ELSE w)

\* The id and the text of a post, where the streamer has it.
Shown ==
    IF at \in {"posted", "mute"}
    THEN out
    ELSE [id |-> getID(wire), text |-> getMsg(wire)]

\* Whatever the client and the way, what a streamer keeps, broadcasts and
\* repeats of a post has the author's name up to its first blank or filler,
\* and when the name has no blank it has the text up to its first filler;
\* both cut to their fields, and nothing of one in the other.
PostKept ==
    job.kind = "post" /\ at \in {"posted", "mute", "diff", "oldm"} =>
        /\ Shown.id = Before(Cut(job.id, MSG_ID_SIZE), {Space, Filler})
        /\ (\A i \in DOMAIN job.id : job.id[i] # Space) =>
               Shown.text = removeDefChar(Cut(job.text, MSG_MESS_SIZE))

\* A message that goes through the manager, which takes it apart and builds
\* it again, reaches the streamer byte for byte as its client built it.
RelayTransparent == job.kind = "post" /\ at = "streamer" => wire = Typed

\* The manager recognises every message that the clients and the streamers
\* build, but for a port that is negative.
VerifyAccepts ==
    at = "manager" =>
        verify_msg(wire) \/ (job.kind = "regi" /\ (job.port1 < 0 \/ job.port2 < 0))

\* The OLDM built from the DIFF of a post has its number, its id and its
\* text (without what follows a filler in the streamer's own file), and a
\* client's post that was broadcast can always be repeated.
OldmRepeatsDiff ==
    [][at = "diff" =>
        \/ at' = "lost" /\ job.kind = "file" /\ getID(wire) = << >> /\ IsBlank(getMsg(wire))
        \/ /\ at' = "oldm" /\ wire'[1].val = "OLDM"
           /\ getNumMsg(wire') = getNumMsg(wire)
           /\ getID(wire') = getID(wire)
           /\ getMsg(wire') = getMsg(wire)]_vars

\* Among the posts that clients can send, the broadcast ends only on one
\* with no name and nothing but blanks: no length and no other character
\* ends it.
MuteIsBlank == at = "mute" /\ job.kind = "post" => out.id = << >> /\ IsBlank(out.text)

\* What clients find in the register leads to the port and the address the
\* streamer was configured with: always in Java; in C, where the zeros that
\* pad an octet make it octal, exactly when it means the same in octal.
ReachedAsRegistered ==
    at = "reached" =>
        /\ out.port = job.port2
        /\ out.ip = job.ip2 <=> out.reader = "java" \/ \A i \in 1..4 : job.ip2[i] \notin 8..99

\* The number of messages asked for is the one the streamer reads when it
\* has at most three digits, and what it reads is never above 999, which
\* keeps it below the size of the ring.
LastRead ==
    at = "asked" =>
        /\ job.nb \in 0..999 => out = job.nb
        /\ out = None \/ out <= 999

\* However many streamers the register of a manager that started may hold,
\* the two digits of LINB say how many ITEM follow.
ListIsAnnounced == at = "counted" => out.read = out.listed

\* A manager that starts has the numbers that were typed, unless they do not
\* fit an int, or a port.
OptionsAsTyped ==
    at = "started" =>
        /\ Abs(job.args[2]) <= INT_MAX => out.capacity = job.args[2]
        /\ job.delay # None /\ Abs(job.delay) <= INT_MAX => out.delay = job.delay
        /\ job.args[1] \in 0..USHRT_MAX => out.port = job.args[1]

=============================================================================
