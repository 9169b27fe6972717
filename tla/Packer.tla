------------------------------- MODULE Packer --------------------------------
(***************************************************************************)
(* _Packer (aiozmq/rpc/packer.py): values of classes that msgpack does not *)
(* know are packed by an entry of the translation table, under its code.   *)
(*                                                                         *)
(* A cache remembers the entry of each class.  It starts with the classes  *)
(* of the table itself, and learns another class when it is first packed:  *)
(* the entry of the lowest code whose class it is an instance of, or that  *)
(* there is none.                                                          *)
(***************************************************************************)
EXTENDS Naturals, FiniteSetsExt

CONSTANTS Classes,   \* classes of values that msgpack does not know
          Supers,    \* a class to its superclasses, itself included
          Table,     \* a code to the class of its entry
          KeyErrors, \* codes whose unpacker raises KeyError
          NoEntry    \* None, in the cache

ASSUME PackerAssumption ==
  /\ Supers \in [Classes -> SUBSET Classes]
  /\ \A c \in Classes : c \in Supers[c]
  /\ DOMAIN Table \in SUBSET Nat /\ IsFiniteSet(DOMAIN Table)
  /\ \A k \in DOMAIN Table : Table[k] \in Classes
  /\ KeyErrors \subseteq DOMAIN Table
  /\ NoEntry \notin Nat

CodesOf(cls) == {k \in DOMAIN Table : Table[k] = cls}

\* _pack_cache of a new packer: filled in the order of the codes, so that the
\* last entry of a class wins.
NewCache == [cls \in {Table[k] : k \in DOMAIN Table} |-> Max(CodesOf(cls))]

\* The long lookup: the first entry, by code, of a class the value is an instance of.
LongLookup(cls) ==
  LET fitting == {k \in DOMAIN Table : Table[k] \in Supers[cls]}
  IN IF fitting = {} THEN NoEntry ELSE Min(fitting)

\* ext_type_pack_hook(): the code a value is packed under; NoEntry raises TypeError.
PackHook(cache, cls) ==
  IF cls \in DOMAIN cache THEN cache[cls] ELSE LongLookup(cls)

\* Slip: what was found is remembered for the class of the entry.
RememberEntry(cache, cls) ==
  LET found == PackHook(cache, cls)
      key == IF found = NoEntry THEN cls ELSE Table[found]
  IN [c \in DOMAIN cache \cup {key} |-> IF c = key THEN found ELSE cache[c]]

\* ext_type_pack_hook(): what the cache is after it.
Remember(cache, cls) ==
  [c \in DOMAIN cache \cup {cls} |-> IF c = cls THEN PackHook(cache, cls) ELSE cache[c]]

\* ext_type_unpack_hook(), of a packer that knows the codes `known`: the class
\* that comes out. A code without an unpacker, and an unpacker that raises
\* KeyError, leave the raw ExtType.
UnpackHook(known, code) ==
  IF code \in known \ KeyErrors THEN Table[code] ELSE NoEntry

-----------------------------------------------------------------------------
\* The code for the first value that a new packer packs.  It is that of the last
\* entry of the very class, or else of the first entry of a superclass.
FirstCode(cls) == PackHook(NewCache, cls)

\* The cache makes no difference: what a packer answers is what a new one would,
\* whatever the order in which it was filled.  An instance of a subclass packed first
\* changes nothing for its superclass, nor a class that was not found for one that is
\* (_pack_cache in ext_type_pack_hook).
CacheAgrees(cache) == \A cls \in DOMAIN cache : cache[cls] = FirstCode(cls)

\* The table is searched in ascending order, as docs/rpc.rst:567 says, and "every
\* lookup will stop" at object under 0 (line 579).  It is so for classes without an
\* entry of their own only: others have a place in the cache from the beginning.
AscendingSearch(cache) == \A cls \in DOMAIN cache : cache[cls] = LongLookup(cls)
=============================================================================
