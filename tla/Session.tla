------------------------------ MODULE Session ------------------------------
(* Who plays a character: ProtocolGame's login, connect, release and logout, *)
(* and the Player objects they hand from client to client.                   *)
(*                                                                           *)
(* One character, several clients. A client's first message is looked at on  *)
(* the I/O thread, which only queues a login; logins, releases, the packets  *)
(* of the game and the timers run on the dispatcher, the queued ones in      *)
(* order. What the I/O thread saw may have changed when the login runs.      *)
EXTENDS Naturals, Sequences

CONSTANTS
  Clients,   \* ProtocolGame objects, one per connection
  Players,   \* bound: Player objects made for the character, one per login
  NoOne      \* a null pointer

ASSUME SessionAssumption == NoOne \notin Clients \union Players

VARIABLES
  link,        \* link[c]: the connection, "gone" when the object is destroyed
  stage,       \* stage[c]: how far c's login is
  holds,       \* holds[c]: ProtocolGame::player
  accepts,     \* accepts[c]: ProtocolGame::acceptPackets
  turns,       \* the dispatcher's queue of logins and releases
  body,        \* body[o]: where the Player object o is in its life
  client,      \* client[o]: Player::client
  connecting,  \* connecting[o]: Player::isConnecting
  forcing,     \* forcing[o]: Player::shouldForceLogout
  excused,     \* excused[o]: why the idle timer passes over o: "training", "kept" (on
               \* a tile where nobody may log out, or of a group with access), or "no"
  named,       \* Game::mappedPlayerNames at the character's name
  deadNamed    \* Game::m_deadPlayers at the character's name

clientVars == <<link, stage, holds, accepts>>
playerVars == <<body, client, connecting, forcing, excused, named, deadNamed>>
sessionVars == <<clientVars, turns, playerVars>>

SessionInit ==
  /\ link = [c \in Clients |-> "new"]
  /\ stage = [c \in Clients |-> "none"]
  /\ holds = [c \in Clients |-> NoOne]
  /\ accepts = [c \in Clients |-> FALSE]
  /\ turns = <<>>
  /\ body = [o \in Players |-> "unused"]
  /\ client = [o \in Players |-> NoOne]
  /\ connecting = [o \in Players |-> FALSE]
  /\ forcing = [o \in Players |-> TRUE]
  /\ excused = [o \in Players |-> "no"]
  /\ named = NoOne
  /\ deadNamed = NoOne

----------------------------------------------------------------------------
(* Parts of the actions.                                                     *)

Turn(kind, c) == [kind |-> kind, of |-> c]

ClientOf(o) == IF o = NoOne THEN NoOne ELSE client[o]

IsOpen(c) == c # NoOne /\ link[c] = "open"

\* Connection::close: the first one queues the release, here after q.
CloseLink(c, q) ==
  /\ link' = IF IsOpen(c) THEN [link EXCEPT ![c] = "closed"] ELSE link
  /\ turns' = IF IsOpen(c) THEN Append(q, Turn("release", c)) ELSE q

\* Mutant: the object forgets its client, the client not the object.
AttachHalf(c, o) ==
  /\ holds' = holds
  /\ accepts' = [accepts EXCEPT ![c] = TRUE]
  /\ client' = [client EXCEPT ![o] = c]

\* Client c plays object o from now on.
Attach(c, o) ==
  /\ holds' = [holds EXCEPT ![c] = o]
  /\ accepts' = [accepts EXCEPT ![c] = TRUE]
  /\ client' = [client EXCEPT ![o] = c]

\* Game::removeCreature; the name is erased whichever object it stands for.
RemoveCreature(o) ==
  /\ body' = [body EXCEPT ![o] = "removed"]
  /\ named' = NoOne

NextIs(kind) == turns # <<>> /\ Head(turns).kind = kind

----------------------------------------------------------------------------
(* The I/O thread.                                                           *)

\* onRecvFirstMessage. The client of whoever has the name is told to use one
\* client at a time and is disconnected, unless he is on the death screen:
\* then it is the newcomer who is refused.
Seen == IF named # NoOne THEN named ELSE deadNamed
Refusing == ClientOf(Seen) # NoOne /\ body[Seen] = "dead"

FirstMessage(c) ==
  /\ link[c] = "new"
  /\ ~Refusing
  /\ LET old == ClientOf(Seen)
     IN /\ link' = [d \in Clients |-> IF d = c THEN "open" ELSE IF d = old /\ IsOpen(d) THEN "closed" ELSE link[d]]
        /\ turns' = (IF IsOpen(old) THEN Append(turns, Turn("release", old)) ELSE turns) \o <<Turn("login", c)>>
  /\ stage' = [stage EXCEPT ![c] = "queued"]
  /\ UNCHANGED <<holds, accepts, playerVars>>

\* The newcomer is refused: a dead character's client, the version, the game's
\* state, a ban, the password.
FirstMessageRefused(c) ==
  /\ link[c] = "new"
  /\ LET old == IF Refusing THEN NoOne ELSE ClientOf(Seen)
     IN \E told \in {NoOne, old} :
          /\ link' = [d \in Clients |-> IF d = c \/ (d = told /\ IsOpen(d)) THEN "closed" ELSE link[d]]
          /\ turns' = (IF IsOpen(told) THEN Append(turns, Turn("release", told)) ELSE turns) \o <<Turn("release", c)>>
  /\ UNCHANGED <<stage, holds, accepts, playerVars>>

\* The client goes, its connection fails or times out.
Drop(c) ==
  /\ link[c] = "open"
  /\ CloseLink(c, turns)
  /\ UNCHANGED <<stage, holds, accepts, playerVars>>

\* The last handler of a closed connection ends and the object with it.
ConnectionDestroyed(c) ==
  /\ link[c] = "closed"
  /\ link' = [link EXCEPT ![c] = "gone"]
  /\ UNCHANGED <<stage, holds, accepts, turns, playerVars>>

----------------------------------------------------------------------------
(* The dispatcher.                                                           *)

\* ProtocolGame::release.
Release ==
  /\ NextIs("release")
  /\ LET c == Head(turns).of
         o == holds[c]
     IN IF o # NoOne /\ client[o] = c
        THEN /\ client' = [client EXCEPT ![o] = NoOne]
             /\ holds' = [holds EXCEPT ![c] = NoOne]
        ELSE UNCHANGED <<client, holds>>
  /\ turns' = Tail(turns)
  /\ UNCHANGED <<link, stage, accepts, body, connecting, forcing, excused, named, deadNamed>>

\* ProtocolGame::login of a character nobody plays. It does not ask whether
\* the connection is still open: the release comes after it.
LoginNew ==
  /\ NextIs("login")
  /\ named = NoOne
  /\ LET c == Head(turns).of
     IN /\ \E o \in Players :
             /\ body[o] = "unused"
             /\ body' = [body EXCEPT ![o] = "online"]
             /\ named' = o
             /\ Attach(c, o)
        /\ stage' = [stage EXCEPT ![c] = "done"]
  /\ turns' = Tail(turns)
  /\ UNCHANGED <<link, connecting, forcing, excused, deadNamed>>

\* A character that cannot be loaded or placed, is banned, or has to wait. The
\* object made for him goes with the client.
LoginRefused ==
  /\ NextIs("login")
  /\ named = NoOne
  /\ CloseLink(Head(turns).of, Tail(turns))
  /\ stage' = [stage EXCEPT ![Head(turns).of] = "done"]
  /\ UNCHANGED <<holds, accepts, playerVars>>

\* Mutant: the client is not told that the object it waited for is gone.
ConnectSilent(c, q) ==
  /\ stage' = [stage EXCEPT ![c] = "done"]
  /\ IF named = NoOne \/ link[c] = "gone"
     THEN UNCHANGED <<holds, accepts, client, connecting>>
     ELSE Attach(c, named) /\ connecting' = [connecting EXCEPT ![named] = FALSE]
  /\ turns' = q
  /\ UNCHANGED <<link, body, forcing, excused, named, deadNamed>>

\* ProtocolGame::connect to the object that has the name now.
Connect(c, q) ==
  /\ stage' = [stage EXCEPT ![c] = "done"]
  /\ IF named = NoOne
     THEN CloseLink(c, q) /\ UNCHANGED <<holds, accepts, client, connecting>>
     ELSE /\ IF link[c] = "gone"
             THEN UNCHANGED <<holds, accepts, client, connecting>>
             ELSE Attach(c, named) /\ connecting' = [connecting EXCEPT ![named] = FALSE]
          /\ turns' = q
          /\ UNCHANGED link
  /\ UNCHANGED <<body, forcing, excused, named, deadNamed>>

LoginConnects ==
  /\ NextIs("login")
  /\ named # NoOne
  /\ client[named] = NoOne
  /\ Connect(Head(turns).of, Tail(turns))

\* Somebody plays: he is disconnected, and eventConnect is scheduled.
LoginReplaces ==
  /\ NextIs("login")
  /\ named # NoOne
  /\ client[named] # NoOne
  /\ CloseLink(client[named], Tail(turns))
  /\ connecting' = [connecting EXCEPT ![named] = TRUE]
  /\ stage' = [stage EXCEPT ![Head(turns).of] = "waiting"]
  /\ UNCHANGED <<holds, accepts, body, client, forcing, excused, named, deadNamed>>

ConnectLater(c) ==
  /\ stage[c] = "waiting"
  /\ Connect(c, turns)

\* Packets of a client that holds an object, in the game or on the death
\* screen. Its connection lives while one is parsed.
Speaks(c) == accepts[c] /\ link[c] \in {"open", "closed"} /\ holds[c] # NoOne

Logout(c) ==
  /\ Speaks(c)
  /\ body[holds[c]] = "online"
  /\ CloseLink(c, turns)
  /\ RemoveCreature(holds[c])
  /\ UNCHANGED <<stage, holds, accepts, client, connecting, forcing, excused, deadNamed>>

\* "Ok" on the death screen, or exit from an object that was removed.
Leave(c) ==
  /\ Speaks(c)
  /\ body[holds[c]] \in {"dead", "removed"}
  /\ link[c] = "open"
  /\ CloseLink(c, turns)
  /\ UNCHANGED <<stage, holds, accepts, playerVars>>

Respawn(c) ==
  /\ Speaks(c)
  /\ body[holds[c]] = "dead"
  /\ body' = [body EXCEPT ![holds[c]] = "online"]
  /\ named' = holds[c]
  /\ deadNamed' = NoOne
  /\ UNCHANGED <<clientVars, turns, client, connecting, forcing, excused>>

\* There is no place for him: he is removed.
RespawnFails(c) ==
  /\ Speaks(c)
  /\ body[holds[c]] = "dead"
  /\ CloseLink(c, turns)
  /\ RemoveCreature(holds[c])
  /\ deadNamed' = NoOne
  /\ UNCHANGED <<stage, holds, accepts, client, connecting, forcing, excused>>

\* Player::death ends with despawn.
Die(o) ==
  /\ body[o] = "online"
  /\ body' = [body EXCEPT ![o] = "dead"]
  /\ named' = NoOne
  /\ deadNamed' = o
  /\ UNCHANGED <<clientVars, turns, client, connecting, forcing, excused>>

\* client->logout, forced, or removeCreature for an object without a client.
Kick(o) ==
  /\ CloseLink(client[o], turns)
  /\ RemoveCreature(o)
  /\ UNCHANGED <<stage, holds, accepts, client, connecting, forcing, excused, deadNamed>>

\* Player::sendPing after a minute without a pong. An object that may not log
\* out, in a fight or while a client connects, is never tried again.
PingTimeout(o) ==
  /\ body[o] = "online"
  /\ forcing[o]
  /\ \/ ~connecting[o] /\ Kick(o)
     \/ /\ forcing' = [forcing EXCEPT ![o] = FALSE]
        /\ UNCHANGED <<clientVars, turns, body, client, connecting, excused, named, deadNamed>>

\* What onThink looks at before the idle timer. The game moves a player, which
\* also ends his training; a training ends by itself when the weapon is used up;
\* only a client begins one.
Excuse(o, reason) ==
  /\ body[o] = "online"
  /\ excused' = [excused EXCEPT ![o] = reason]
  /\ UNCHANGED <<clientVars, turns, body, client, connecting, forcing, named, deadNamed>>

Move(o) == \E reason \in {"no", "kept"} : excused[o] # reason /\ Excuse(o, reason)
Train(o) == excused[o] # "training" /\ client[o] # NoOne /\ Excuse(o, "training")
EndTraining(o) == excused[o] = "training" /\ \E reason \in {"no", "kept"} : Excuse(o, reason)

\* Mutant: only a client that is there is told, and kicked.
IdleKickClient(o) ==
  /\ body[o] = "online"
  /\ excused[o] = "no"
  /\ client[o] # NoOne
  /\ Kick(o)

\* Player::onThink after kickAfterMinutes without activity.
IdleKick(o) ==
  /\ body[o] = "online"
  /\ excused[o] = "no"
  /\ Kick(o)

----------------------------------------------------------------------------

LoginTurn == LoginNew \/ LoginRefused \/ LoginConnects \/ LoginReplaces

SessionNext ==
  \/ Release
  \/ LoginTurn
  \/ \E c \in Clients : \/ FirstMessage(c) \/ FirstMessageRefused(c) \/ Drop(c) \/ ConnectionDestroyed(c)
                        \/ ConnectLater(c) \/ Logout(c) \/ Leave(c) \/ Respawn(c) \/ RespawnFails(c)
  \/ \E o \in Players : Die(o) \/ PingTimeout(o) \/ IdleKick(o) \/ Move(o) \/ Train(o) \/ EndTraining(o)

SessionSpec == SessionInit /\ [][SessionNext]_sessionVars

(* The dispatcher runs what is queued and what is due; every online player   *)
(* thinks; a training weapon is used up in the end. Nothing is assumed of    *)
(* the clients, nor of where a player is taken.                              *)
SessionFairness ==
  /\ WF_sessionVars(Release \/ LoginTurn)
  /\ \A c \in Clients : WF_sessionVars(ConnectLater(c))
  /\ \A o \in Players : WF_sessionVars(IdleKick(o)) /\ WF_sessionVars(EndTraining(o))

SessionFairSpec == SessionSpec /\ SessionFairness

----------------------------------------------------------------------------
(* Properties.                                                               *)

\* The type invariant; no login or release waits twice.
SessionTypeOK ==
  /\ link \in [Clients -> {"new", "open", "closed", "gone"}]
  /\ stage \in [Clients -> {"none", "queued", "waiting", "done"}]
  /\ holds \in [Clients -> Players \union {NoOne}]
  /\ accepts \in [Clients -> BOOLEAN]
  /\ turns \in Seq([kind : {"login", "release"}, of : Clients])
  /\ \A i, j \in DOMAIN turns : turns[i] = turns[j] => i = j
  /\ body \in [Players -> {"unused", "online", "dead", "removed"}]
  /\ client \in [Players -> Clients \union {NoOne}]
  /\ connecting \in [Players -> BOOLEAN] /\ forcing \in [Players -> BOOLEAN]
  /\ excused \in [Players -> {"no", "training", "kept"}]
  /\ named \in Players \union {NoOne} /\ deadNamed \in Players \union {NoOne}

\* The client an object sends to is one that holds it, so that its release
\* finds it: however logins, replacements, deaths and releases interleave, no
\* object's client points at a protocol that plays nothing or another object.
ClientHoldsPlayer == \A o \in Players : client[o] # NoOne => holds[client[o]] = o

\* A client that was let in by its first message is playing in the end, or is
\* disconnected: it is never left waiting.
LoginAnswered ==
  \A c \in Clients : stage[c] \in {"queued", "waiting"} ~> accepts[c] \/ link[c] # "open"

\* A character whose client is gone does not stay in the game for ever, even
\* when the client that was to replace it never came (isConnecting keeps
\* PingTimeout from ever removing it) or he was in a fight when the ping timed
\* out: the idle timer removes him, once a training that he left is over. It
\* does not as long as he stands where nobody may log out or has access; there
\* he may stay for ever.
LostPlayerLeaves ==
  \A o \in Players :
    body[o] = "online" /\ client[o] = NoOne
      ~> body[o] # "online" \/ client[o] # NoOne \/ excused[o] = "kept"

\* "Please use only one client at a time": two connected clients never play
\* the same object.
Plays(c) == link[c] = "open" /\ accepts[c] /\ holds[c] # NoOne /\ body[holds[c]] = "online"
OneClientAtATime == \A c, d \in Clients : Plays(c) /\ Plays(d) /\ holds[c] = holds[d] => c = d
=============================================================================
