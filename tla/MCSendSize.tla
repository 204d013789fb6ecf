----------------------------- MODULE MCSendSize -----------------------------
(* One call, or two that may overlap.  Two filesystems, one of them the    *)
(* pool's own (without a "/"); snapshots s and t; a bookmark.              *)
EXTENDS SendSize

CONSTANTS c1, c2

One == {c1}
Two == {c1, c2}
MCParts == {"", "pool", "pool/fs", "s", "t", "s#b"}
MCSlash == {"pool/fs"}
MCHash == {"s#b"}

Fs == <<"pool/fs">>
Snap == <<"pool/fs", "s">>
Ask(how, path, origin, from) == [how |-> how, path |-> path, origin |-> origin, from |-> from]

MCPlain == {Ask("SendSize", Snap, Empty, Empty)}

(* Sources with and without a filesystem, its own or another, with none or *)
(* two "@"s; a clone (a filesystem with an origin) besides a snapshot.     *)
Sources == {Empty} \cup {<<a>> : a \in {"pool/fs", "t"}}
             \cup {<<a, b>> : a \in {"", "pool", "pool/fs"}, b \in {"t", "s#b", "pool/fs"}}
             \cup {<<"", "t", "s">>}
MCRequests ==
  MCPlain \cup {Ask("SendSize", Snap, Empty, f) : f \in {<<"", "t">>, <<"", "s#b">>, <<"pool/fs">>}}
    \cup {Ask("SendFrom", p, Empty, f) : p \in {Snap, <<"pool", "s">>}, f \in Sources}
    \cup {Ask("SendFrom", Fs, o, f) : o \in {Empty, <<"pool", "t">>}, f \in Sources}
    \cup {Ask("Send", p, Empty, Empty) : p \in {Fs, Snap}}
=============================================================================
