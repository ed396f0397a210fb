------------------------------- MODULE Poller -------------------------------
(***************************************************************************)
(* The two pollers of a loop, PollPoller and EPollPoller (net/poller), given *)
(* the same calls by the Channels (net/Channel.h).  Each keeps its own       *)
(* bookkeeping of the channel's index_: the position in pollfds_, which the  *)
(* removal of another channel changes, or kNew, kAdded, kDeleted.            *)
(*                                                                         *)
(* A channel is its descriptor.  A channel that is not in the poller is      *)
(* first updated by enableReading() or enableWriting().                      *)
(***************************************************************************)
EXTENDS Integers, Sequences, SequencesExt

CONSTANT Fds  \* descriptors of the channels, with 0

ASSUME PollerAssumption == Fds \subseteq Nat

VARIABLES
  events,    \* events_ of the channels
  chans,     \* keys of channels_
  pollfds,   \* pollfds_ of the PollPoller
  index,     \* index_ under the PollPoller
  epIndex,   \* index_ under the EPollPoller
  epoll,     \* the kernel's epoll set: descriptor -> events
  activeChannels,  \* of the last poll(): position in pollfds_ -> channel
  ready,     \* history: the channels the kernel reported to it
  asserted,  \* history: an assertion of the PollPoller failed, ...
  epAsserted \* ... or one of the EPollPoller

pollerVars == <<events, chans, pollfds, index, epIndex, epoll, activeChannels, ready,
                asserted, epAsserted>>

Watched == {c \in chans : events[c] # {}}
Interest == SUBSET {"read", "write"}
kNew == -1
kAdded == 1
kDeleted == 2

\* A pollfd of a channel without events holds -fd-1, which also hides fd 0.
Ignored(fd) == -fd - 1
Pfd(fd, ev) == [fd |-> fd, events |-> ev]

\* Faulty: the last entry is taken for a descriptor as it stands.
AtEndAsIs(fd) == fd

\* The channel behind the entry at the end of pollfds_.
ChannelAtEnd(fd) == IF fd < 0 THEN -fd - 1 ELSE fd

-----------------------------------------------------------------------------
(* PollPoller *)

\* updateChannel; positions of pollfds_ count from 0.
PollUpdate(c, ev) ==
  IF index[c] < 0
  THEN /\ pollfds' = Append(pollfds, Pfd(c, ev))
       /\ index' = [index EXCEPT ![c] = Len(pollfds)]
       /\ asserted' = (asserted \/ c \in chans)
  ELSE LET idx == index[c]
           held == idx < Len(pollfds) /\ pollfds[idx + 1].fd \in {c, Ignored(c)}
       IN /\ asserted' = (asserted \/ c \notin chans \/ ~held)
          /\ pollfds' = IF held
                        THEN [pollfds EXCEPT ![idx + 1] =
                                Pfd(IF ev = {} THEN Ignored(c) ELSE c, ev)]
                        ELSE pollfds
          /\ UNCHANGED index

\* removeChannel: the last entry takes the place of the removed one.  index_
\* of the removed channel keeps its value, so the channel is not used again.
PollRemove(c) ==
  LET idx == index[c]
      last == Len(pollfds)
      held == idx < last /\ pollfds[idx + 1] = Pfd(Ignored(c), {})
      atEnd == ChannelAtEnd(pollfds[last].fd)
  IN /\ asserted' = (asserted \/ c \notin chans \/ ~held)
     /\ IF held /\ idx + 1 < last
        THEN /\ pollfds' = SubSeq([pollfds EXCEPT ![idx + 1] = pollfds[last]], 1, last - 1)
             /\ index' = IF atEnd \in Fds THEN [index EXCEPT ![atEnd] = idx] ELSE index
        ELSE /\ pollfds' = Front(pollfds)
             /\ UNCHANGED index

\* fillActiveChannels: the entries with events, as many as poll() counted.
FillActiveChannels(reported) ==
  [i \in {j \in DOMAIN pollfds : pollfds[j].fd \in reported} |-> pollfds[i].fd]

-----------------------------------------------------------------------------
(* EPollPoller, with epoll_ctl *)

With(f, c, ev) == [x \in DOMAIN f \cup {c} |-> IF x = c THEN ev ELSE f[x]]
Without(f, c) == [x \in DOMAIN f \ {c} |-> f[x]]

\* updateChannel and update.  A channel that is out of the epoll set is added
\* whatever its events, so a second disableAll() puts it back, for hangups only.
EpollUpdate(c, ev) ==
  /\ epAsserted' = (epAsserted \/ ((epIndex[c] = kNew) <=> (c \in chans)))
  /\ \/ /\ epIndex[c] \in {kNew, kDeleted}
        /\ epoll' = With(epoll, c, ev)
        /\ epIndex' = [epIndex EXCEPT ![c] = kAdded]
     \/ /\ epIndex[c] = kAdded /\ ev = {}
        /\ epoll' = Without(epoll, c)
        /\ epIndex' = [epIndex EXCEPT ![c] = kDeleted]
     \/ /\ epIndex[c] = kAdded /\ ev # {}
        /\ epoll' = With(epoll, c, ev)
        /\ UNCHANGED epIndex

\* removeChannel.
EpollRemove(c) ==
  /\ epAsserted' = (epAsserted \/ c \notin chans \/ epIndex[c] \notin {kAdded, kDeleted})
  /\ epoll' = IF epIndex[c] = kAdded THEN Without(epoll, c) ELSE epoll
  /\ epIndex' = [epIndex EXCEPT ![c] = kNew]

-----------------------------------------------------------------------------
(* Channel *)

\* enableReading ... disableAll, with update().
UpdateChannel(c, ev) ==
  /\ c \in chans \/ (ev # {} /\ index[c] = kNew)
  /\ events' = [events EXCEPT ![c] = ev]
  /\ chans' = chans \cup {c}
  /\ PollUpdate(c, ev)
  /\ EpollUpdate(c, ev)
  /\ UNCHANGED <<activeChannels, ready>>

\* remove().
RemoveChannel(c) ==
  /\ c \in chans /\ events[c] = {}
  /\ chans' = chans \ {c}
  /\ PollRemove(c)
  /\ EpollRemove(c)
  /\ UNCHANGED <<events, activeChannels, ready>>

\* ~Channel, and a new Channel for the descriptor, which is opened again.
ReopenChannel(c) ==
  /\ c \notin chans /\ index[c] # kNew
  /\ index' = [index EXCEPT ![c] = kNew]
  /\ UNCHANGED <<events, chans, pollfds, epIndex, epoll, activeChannels, ready, asserted,
                 epAsserted>>

\* poll(): the kernel reports some of the channels it was asked to watch.
PollChannels(reported) ==
  /\ ready' = reported
  /\ activeChannels' = FillActiveChannels(reported)
  /\ asserted' = (asserted \/ ~(reported \subseteq chans))
  /\ epAsserted' = (epAsserted \/ ~(reported \subseteq chans))
  /\ UNCHANGED <<events, chans, pollfds, index, epIndex, epoll>>

PollerInit ==
  /\ events = [c \in Fds |-> {}] /\ chans = {}
  /\ pollfds = <<>> /\ index = [c \in Fds |-> kNew]
  /\ epIndex = [c \in Fds |-> kNew] /\ epoll = <<>>
  /\ activeChannels = <<>> /\ ready = {} /\ asserted = FALSE
  /\ epAsserted = FALSE

PollerNext ==
  \/ \E c \in Fds, ev \in Interest : UpdateChannel(c, ev)
  \/ \E c \in Fds : RemoveChannel(c)
  \/ \E c \in Fds : ReopenChannel(c)
  \/ \E reported \in SUBSET Watched : PollChannels(reported)

PollerSpec == PollerInit /\ [][PollerNext]_pollerVars

-----------------------------------------------------------------------------
\* After any sequence of updates, removals and reuses of descriptors both
\* pollers watch what the channels asked for, index_ finds the entry of each
\* channel and there are no other entries, the assertions of both hold, and a poll
\* makes every reported channel active once.  A removed channel is in neither.
PollersWatchInterest ==
  /\ ~asserted /\ ~epAsserted
  /\ {pollfds[i] : i \in {j \in DOMAIN pollfds : pollfds[j].fd >= 0}}
       = {Pfd(c, events[c]) : c \in Watched}
  /\ \A c \in chans : /\ index[c] < Len(pollfds)
                      /\ pollfds[index[c] + 1].fd \in {c, Ignored(c)}
  /\ \A i \in DOMAIN pollfds : \E c \in chans : i = index[c] + 1
  /\ Watched \subseteq DOMAIN epoll /\ DOMAIN epoll \subseteq chans
  /\ \A c \in DOMAIN epoll : epoll[c] = events[c]
  /\ Range(activeChannels) = ready /\ IsInjective(activeChannels)
=============================================================================
