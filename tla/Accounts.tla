------------------------------ MODULE Accounts ------------------------------
(***************************************************************************)
(* The account behind a Discord login: which user of the site a Discord id *)
(* leads to, the flags administrators give it, and the picture kept for it *)
(* (DiscordAuth.getUser and updateDB, the administrators' API and the      *)
(* avatar bucket).                                                         *)
(*                                                                         *)
(* A login reads the profile from Discord in one or two calls and later    *)
(* stores what it made of it in one write transaction, in which it also    *)
(* downloads the picture.  Other logins of the same person, and            *)
(* administrators, come in between.  A source stands for its picture and   *)
(* for the hash of it.  Names and tokens are overwritten in the same       *)
(* transaction; tokens are the subject of module Login.                    *)
(***************************************************************************)
CONSTANTS
  DiscordIds,   \* people on Discord
  Nobody,
  Ids,          \* what newID returns; bounds the accounts
  NoId,
  Pictures,     \* sources of pictures at Discord
  Seeds,        \* sources of random pictures
  NoSource,
  Rights,       \* User.Admin and User.Tester
  Logins        \* logins that can be under way

ASSUME AccountsAssumption ==
  /\ Nobody \notin DiscordIds
  /\ NoId \notin Ids
  /\ NoSource \notin Pictures \union Seeds

Sources == Pictures \union Seeds

VARIABLES
  linked,    \* the discord_user bucket
  users,     \* keys of the user bucket
  user,      \* User.Hidden, Admin and Tester, RandomAvatar, AvatarSource, AvatarURL
  cached,    \* the user_avatar bucket
  login,     \* the login in each slot
  granted    \* history: the flags an account was made with or given since

stored == <<linked, users, user, cached, granted>>
vars == <<stored, login>>

\* Links to pictures: kept here, with the hash of the picture; at another site;
\* typed by an administrator.
LinkKinds == {"none", "cached", "external", "typed"}
Link(kind, hash) == [kind |-> kind, hash |-> hash]

Profile == [member : BOOLEAN, picture : Pictures \union {NoSource}]
Stranger == [member |-> FALSE, picture |-> NoSource]

\* A user before the first picture is chosen.
NewUser(member) ==
  [hidden |-> ~member, rights |-> {}, random |-> FALSE,
   source |-> NoSource, url |-> Link("none", NoSource)]

Flags(u) == [hidden |-> u.hidden, rights |-> u.rights]

Idle == [phase |-> "idle", who |-> Nobody, seen |-> Stranger]

Init ==
  /\ linked = [d \in DiscordIds |-> NoId]
  /\ users = {}
  /\ user = [id \in Ids |-> NewUser(FALSE)]
  /\ cached = [id \in Ids |-> NoSource]
  /\ login = [l \in Logins |-> Idle]
  /\ granted = [id \in Ids |-> Flags(NewUser(FALSE))]

-----------------------------------------------------------------------------
(* Administrators.                                                         *)

\* POST /user/{id}.  A field that is not sent keeps its value.
Update(id) ==
  /\ id \in users
  /\ \E hidden, random \in BOOLEAN, rights \in SUBSET Rights,
        url \in {user[id].url, Link("typed", NoSource)} :
       user' = [user EXCEPT ![id] = [@ EXCEPT !.hidden = hidden, !.rights = rights,
                                              !.random = random, !.url = url]]
  /\ granted' = [granted EXCEPT ![id] = Flags(user'[id])]
  /\ UNCHANGED <<linked, users, cached, login>>

-----------------------------------------------------------------------------
(* A login.                                                                *)

\* The code was exchanged for a token of this person, and getGuildMember asks
\* for the profile in the guild.  Code 10004 says that the person is no member.
\* What Discord says may have changed since any earlier login.
AskGuild(l, d) ==
  /\ login[l].phase = "idle"
  /\ \E seen \in Profile :
       login' = [login EXCEPT ![l] =
         [phase |-> IF seen.member THEN "known" ELSE "user", who |-> d,
          seen |-> IF seen.member THEN seen ELSE Stranger]]
  /\ UNCHANGED stored

\* getUser, for anybody else; whether the person joined meanwhile is not asked.
AskUser(l) ==
  /\ login[l].phase = "user"
  /\ \E seen \in Profile :
       /\ ~seen.member
       /\ login' = [login EXCEPT ![l].phase = "known", ![l].seen = seen]
  /\ UNCHANGED stored

\* Discord answers with an error or not at all, or the transaction fails.
Fail(l) ==
  /\ login[l].phase # "idle"
  /\ login' = [login EXCEPT ![l] = Idle]
  /\ UNCHANGED stored

-----------------------------------------------------------------------------
(* updateDB.                                                               *)

\* The Discord id leads to a user.
Known(d) == linked[d] \in users

\* Mutant of FreshIds: the bucket is not asked.
FreshIdsAny == Ids

\* newID, again and again until no user has it.
FreshIds == Ids \ users

\* Mutant of Account: every login makes the record anew.
AccountAnew(d, id, seen) == NewUser(seen.member)

Account(d, id, seen) == IF Known(d) THEN user[id] ELSE NewUser(seen.member)

\* Where the picture is to come from.
Wanted(u, seen) ==
  IF seen.picture # NoSource THEN {seen.picture}
  ELSE IF u.random /\ u.source # NoSource THEN {u.source}
  ELSE Seeds

\* The download worked, and the picture is kept.
Fetched(u, source) == [u EXCEPT !.source = source, !.url = Link("cached", source)]

\* Mutant of Missed: the source is noted although the picture is not there.
MissedNoted(u, source, old) ==
  [u EXCEPT !.source = source, !.url = IF old = NoSource THEN Link("external", NoSource) ELSE @]

\* The download failed: the old picture stays, or the browser is sent to the
\* source itself.
Missed(u, source, old) ==
  IF old = NoSource
  THEN [u EXCEPT !.source = NoSource, !.url = Link("external", NoSource)]
  ELSE u

UpdateDB(l) ==
  LET d == login[l].who
      seen == login[l].seen
  IN  /\ login[l].phase = "known"
      /\ \E id \in IF Known(d) THEN {linked[d]} ELSE FreshIds :
         \E source \in Wanted(Account(d, id, seen), seen) :
           LET u == [Account(d, id, seen) EXCEPT !.random = (seen.picture = NoSource)]
               needed == cached[id] = NoSource \/ u.source # source
           IN  /\ \/ ~needed /\ user' = [user EXCEPT ![id] = u] /\ UNCHANGED cached
                  \/ /\ needed
                     /\ user' = [user EXCEPT ![id] = Fetched(u, source)]
                     /\ cached' = [cached EXCEPT ![id] = source]
                  \/ /\ needed
                     /\ user' = [user EXCEPT ![id] = Missed(u, source, cached[id])]
                     /\ UNCHANGED cached
               /\ linked' = [linked EXCEPT ![d] = id]
               /\ users' = users \union {id}
               /\ granted' = IF Known(d) THEN granted
                             ELSE [granted EXCEPT ![id] = Flags(NewUser(seen.member))]
      /\ login' = [login EXCEPT ![l] = Idle]

Next ==
  \/ \E id \in Ids : Update(id)
  \/ \E l \in Logins :
       \/ \E d \in DiscordIds : AskGuild(l, d)
       \/ AskUser(l) \/ Fail(l) \/ UpdateDB(l)

Spec == Init /\ [][Next]_vars

-----------------------------------------------------------------------------
(* Properties.                                                             *)

LinkType == [kind : LinkKinds, hash : Sources \union {NoSource}]
UserType == [hidden : BOOLEAN, rights : SUBSET Rights, random : BOOLEAN,
             source : Sources \union {NoSource}, url : LinkType]

\* Every variable has its type, every user has some link to a picture, and a login
\* that has begun is somebody's.
TypeOK ==
  /\ linked \in [DiscordIds -> users \union {NoId}]
  /\ users \subseteq Ids
  /\ user \in [Ids -> UserType]
  /\ \A id \in users : user[id].url.kind # "none"
  /\ cached \in [Ids -> Sources \union {NoSource}]
  /\ login \in [Logins -> [phase : {"idle", "user", "known"},
                           who : DiscordIds \union {Nobody}, seen : Profile]]
  /\ \A l \in Logins : login[l].phase # "idle" => login[l].who # Nobody
  /\ granted \in [Ids -> [hidden : BOOLEAN, rights : SUBSET Rights]]

\* discord.go:385-403.  However first logins overlap, nobody gets two accounts,
\* no two people share one, and no account is left that no Discord id leads to.
OneAccountEach ==
  /\ \A id \in users : \E d \in DiscordIds : linked[d] = id
  /\ \A d, e \in DiscordIds : linked[d] = linked[e] /\ linked[d] # NoId => d = e

\* discord.go:405-448.  A picture is kept exactly for the users whose AvatarSource
\* names one, and it is that one; a link to it names its own hash, and nobody
\* with a kept picture is sent to another site unless an administrator typed so.
PictureMatches ==
  \A id \in Ids :
    /\ cached[id] = user[id].source
    /\ user[id].url.kind = "cached" => user[id].url.hash = cached[id] /\ cached[id] # NoSource
    /\ user[id].url.kind \in {"external", "none"} => cached[id] = NoSource

\* discord.go:390-403 and api.go:154-179.  What administrators last said of an
\* account holds, however old the profile of a login is that commits after it;
\* until they say something, an account made for no member is hidden and has
\* no rights.
FlagsHold == \A id \in users : Flags(user[id]) = granted[id]
=============================================================================
