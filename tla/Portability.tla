---------------------------- MODULE Portability ----------------------------
(***************************************************************************)
(* portability.py: copy_store, dump_store and load_store, run by one       *)
(* process ("port") over a store that others write to meanwhile.  The      *)
(* process may be interrupted at any step: an exception runs the cleanup   *)
(* of dump_store, a crash does not.                                        *)
(***************************************************************************)
EXTENDS SharedStore

CONSTANTS
  Prefixes,  \* the prefixes passed in; <<>> for None
  BatchSize  \* _BATCH

ASSUME PortAssumption ==
  /\ "port" \in Watcher
  /\ Prefixes \subseteq Seq(Point)
  /\ BatchSize \in Nat \ {0}

VARIABLES
  dst,       \* the rows of the other store
  files,     \* "path", its "tmp", and a "stream" given as a file object
  port,      \* the call under way
  finished   \* history: the frames of the last dump moved into place

portvars == <<dst, files, port, finished>>

\* A file: whole frames, then possibly a part of one more.
NoFile == [frames |-> <<>>, cut |-> FALSE, there |-> FALSE]
NewFile == [NoFile EXCEPT !.there = TRUE]

NoCall == [pc |-> "idle", op |-> "none", to |-> "none", prefix |-> <<>>,
           nss |-> {}, ns |-> <<>>, ks |-> {}, batch |-> Empty, doubt |-> {},
           out |-> <<>>, at |-> 0, pend |-> <<>>, before |-> Empty]

PortInit ==
  /\ dst = Empty
  /\ files = [f \in {"path", "tmp", "stream"} |-> NoFile]
  /\ port = NoCall
  /\ finished = <<>>

\* The rows a list of entries leaves behind.
RowsOf(es) ==
  [r \in {es[i][1] : i \in DOMAIN es} |->
     es[CHOOSE i \in DOMAIN es : es[i][1] = r /\ \A j \in i + 1 .. Len(es) : es[j][1] # r][2]]

\* The entries of a batch, which are of one namespace, by key.
ListOf(b) ==
  LET nth(i) == CHOOSE r \in DOMAIN b : Cardinality({q \in DOMAIN b : Below(q[2], r[2])}) = i - 1
  IN  [i \in 1 .. Cardinality(DOMAIN b) |-> <<nth(i), b[nth(i)]>>]

-----------------------------------------------------------------------------
(* _entries: namespaces, the keys of each, their values batch by batch *)

Begin(op, to, prefix) ==
  /\ port.pc = "idle"
  /\ Calls("port")
  /\ Watch("port")
  /\ port' = [NoCall EXCEPT !.pc = "ns", !.op = op, !.to = to, !.prefix = prefix,
                            !.nss = NamespacesFrom(prefix)]
  /\ UNCHANGED <<src, finished>>

copy_store(prefix) ==
  /\ Begin("copy", "dst", prefix)
  /\ UNCHANGED <<dst, files>>

\* Mutant: what an interrupted dump left in the temporary file stays in it.
AppendTo(f) == [files[f] EXCEPT !.there = TRUE]

\* open(tmp, "wb") starts from an empty file.
OpenFresh(f) == NewFile

\* to = "tmp" when the target is a path, "stream" when it is a file object.
dump_store(prefix, to) ==
  /\ Begin("dump", to, prefix)
  /\ files' = [files EXCEPT ![to] = OpenFresh(to)]
  /\ UNCHANGED dst

Step(r) == port' = r /\ UNCHANGED store

NextNs ==
  /\ port.pc = "ns" /\ port.ks = {} /\ port.nss # {}
  /\ LET n == Least(port.nss)
     IN  Step([port EXCEPT !.nss = @ \ {n}, !.ns = n, !.ks = keys(n)])
  /\ UNCHANGED <<dst, files, finished>>

\* The first BatchSize keys that are left, or all of them.
NextKeys ==
  {k \in port.ks : Cardinality({l \in port.ks : Below(l, k)}) < BatchSize}

\* get_many for the next keys: None for a row that is gone or that holds None.
Chunk ==
  /\ port.pc = "ns" /\ port.ks # {}
  /\ LET rs   == {port.ns} \X NextKeys
         vals == [r \in rs |-> IF r \in DOMAIN src THEN src[r] ELSE Null]
     IN  Step([port EXCEPT !.pc = "contains", !.ks = @ \ NextKeys, !.batch = vals,
                           !.doubt = {r \in rs : vals[r] = Null}])
  /\ UNCHANGED <<dst, files, finished>>

\* contains() tells a stored None from a missing row, by what is there now.
Contains ==
  /\ port.pc = "contains" /\ port.doubt # {}
  /\ LET r == <<port.ns, Least({q[2] : q \in port.doubt})>>
     IN  Step([port EXCEPT !.doubt = @ \ {r},
                 !.batch = IF r \in DOMAIN src THEN @ ELSE Without(@, {r})])
  /\ UNCHANGED <<dst, files, finished>>

\* The batch goes to the other store in one set_many, or to the file frame by
\* frame (an interruption may leave any part of it).
Emit ==
  LET es == ListOf(port.batch) IN
  /\ port.pc = "contains" /\ port.doubt = {}
  /\ Step([port EXCEPT !.pc = "ns", !.batch = Empty, !.out = @ \o es])
  /\ IF port.op = "copy"
     THEN dst' = Merge(dst, port.batch) /\ UNCHANGED files
     ELSE files' = [files EXCEPT ![port.to].frames = @ \o es] /\ UNCHANGED dst
  /\ UNCHANGED finished

EndOfEntries ==
  /\ port.pc = "ns" /\ port.nss = {} /\ port.ks = {}
  /\ Step([port EXCEPT !.pc = "entries"])
  /\ UNCHANGED <<dst, files, finished>>

\* The call returns; a dump to a path is moved into place first (os.replace).
Return ==
  /\ port.pc = "entries"
  /\ port' = NoCall
  /\ Unwatch("port")
  /\ IF port.to = "tmp"
     THEN /\ files' = [files EXCEPT !["path"] = files["tmp"], !["tmp"] = NoFile]
          /\ finished' = port.out
     ELSE UNCHANGED <<files, finished>>
  /\ UNCHANGED <<src, left, dst>>

\* What an interruption leaves of a file that is being written: the frames so
\* far and those of the batch under way, up to some byte.
Partial(f) ==
  LET all == files[f].frames \o ListOf(port.batch) IN
  \E n \in 0 .. Len(all), c \in BOOLEAN :
    files' = [files EXCEPT ![f].frames = SubSeq(all, 1, n), ![f].cut = c]

Halt == port' = NoCall /\ Unwatch("port") /\ UNCHANGED <<src, left, dst, finished>>

Writing == port.op = "dump" /\ port.pc # "idle"

\* An exception: dump_store removes its temporary file, a file object keeps
\* what was written.
Raise ==
  /\ port.pc # "idle"
  /\ Halt
  /\ \/ /\ ~ Writing
        /\ UNCHANGED files
     \/ /\ Writing /\ port.to = "tmp"
        /\ files' = [files EXCEPT !["tmp"] = NoFile]
     \/ Writing /\ port.to = "stream" /\ Partial("stream")

\* The process dies: the temporary file stays behind as it is.
Crash ==
  /\ Writing /\ port.to = "tmp"
  /\ Halt
  /\ Partial("tmp")

-----------------------------------------------------------------------------
(* load_store *)

load_store(f) ==
  /\ port.pc = "idle" /\ files[f].there
  /\ Calls("port")
  /\ port' = [NoCall EXCEPT !.pc = "load", !.op = "load", !.to = f, !.before = dst]
  /\ UNCHANGED <<src, seen, dst, files, finished>>

\* One frame; a full batch is applied at once.
LoadFrame ==
  LET f    == files[port.to].frames
      pend == Append(port.pend, f[port.at + 1])
  IN  /\ port.pc = "load" /\ port.at < Len(f)
      /\ IF Len(pend) >= BatchSize
         THEN /\ dst' = Merge(dst, RowsOf(pend))
              /\ Step([port EXCEPT !.at = @ + 1, !.pend = <<>>])
         ELSE /\ Step([port EXCEPT !.at = @ + 1, !.pend = pend])
              /\ UNCHANGED dst
      /\ UNCHANGED <<files, finished>>

\* Mutant: the batch that is not full is forgotten.
LastBatchDropped(d) == d

LastBatch(d) == Merge(d, RowsOf(port.pend))

\* The end of the file: half a frame raises "truncated swarmstate dump" and
\* what is pending is not applied.
LoadEnd ==
  LET f == files[port.to] IN
  /\ port.pc = "load" /\ port.at = Len(f.frames)
  /\ IF f.cut
     THEN Step([port EXCEPT !.pc = "truncated"]) /\ UNCHANGED dst
     ELSE Step([port EXCEPT !.pc = "loaded", !.pend = <<>>]) /\ dst' = LastBatch(dst)
  /\ UNCHANGED <<files, finished>>

LoadReturn ==
  /\ port.pc \in {"loaded", "truncated"}
  /\ Step(NoCall)
  /\ UNCHANGED <<dst, files, finished>>

PortNext ==
  \/ \E prefix \in Prefixes :
       copy_store(prefix) \/ \E to \in {"tmp", "stream"} : dump_store(prefix, to)
  \/ NextNs \/ Chunk \/ Contains \/ Emit \/ EndOfEntries \/ Return
  \/ Raise \/ Crash
  \/ \E f \in {"path", "stream"} : load_store(f)
  \/ LoadFrame \/ LoadEnd \/ LoadReturn

-----------------------------------------------------------------------------
(* Properties *)

\* The rows a call has emitted by the time it has gone through all of them.
\* None may also stand for a row that was missing when it was read and there
\* when contains() asked.
Emitted(r, v) ==
  \/ Had("port", r, v)
  \/ v = Null /\ \E s, t \in seen["port"] : r \notin DOMAIN s /\ r \in DOMAIN t

\* copy_store and dump_store carry each row at most once, with a value it had
\* while they ran, and miss no row under the prefix that was there throughout
\* (portability.py:44, and the index range of _prefix.py:18).
EntriesFaithful ==
  port.pc = "entries" =>
    /\ \A i \in DOMAIN port.out :
         /\ Emitted(port.out[i][1], port.out[i][2])
         /\ StartsWith(port.out[i][1][1], port.prefix)
         /\ \A j \in DOMAIN port.out : port.out[i][1] = port.out[j][1] => i = j
    /\ \A r \in Always("port") :
         StartsWith(r[1], port.prefix) => \E i \in DOMAIN port.out : port.out[i][1] = r

\* A path holds a whole dump or nothing, whatever happens to the dumps that
\* are written to it (dump_store: "an interrupted dump never leaves a truncated
\* file behind").
FileWhole ==
  files["path"] # NoFile => files["path"] = [NewFile EXCEPT !.frames = finished]

\* load_store applies every frame of a file or, if the file is cut inside one,
\* raises with a whole number of batches applied; nothing else in the store
\* changes (portability.py:143).
LoadFaithful ==
  LET applied(n) == Merge(port.before, RowsOf(SubSeq(files[port.to].frames, 1, n)))
  IN  /\ port.pc = "loaded" => dst = applied(port.at)
      /\ port.pc = "truncated" => dst = applied(port.at - (port.at % BatchSize))
=============================================================================
