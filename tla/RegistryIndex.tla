--------------------------- MODULE RegistryIndex ---------------------------
(***************************************************************************)
(* The index of the chain registry: RegistryIndex of registry.rs.          *)
(*                                                                         *)
(* A run loads the registry once: it goes through the directories under    *)
(* chains/ in the order in which the file system lists them, and builds    *)
(* three maps.  A chain goes by the name and the domain in its metadata,   *)
(* not by its directory, and two directories may claim the same.  The      *)
(* registry is a working tree: a checkout or an editor may change it while *)
(* it is read.                                                             *)
(***************************************************************************)
EXTENDS Integers, FiniteSets

CONSTANTS
    Dirs,        \* names of directories under chains/
    Names,       \* names of chains
    DomainIds,   \* domain ids
    Registries,  \* registries to start from: [Dirs -> Content]
    Edits,       \* what an edit may leave in a directory
    MaxEdits,    \* bound on the edits
    NoDir        \* no directory is half read

Protocols == {"ethereum", "cosmosnative"}

\* ChainMetadata, as far as a run depends on it.
ChainMetadata == [name : Names, domain : DomainIds, protocol : Protocols]

\* CoreAddresses: whether there is an interchainGasPaymaster among them.
CoreAddresses == {"igp", "no_igp"}

\* What is found under chains/<dir>: nothing, a file, a directory without
\* metadata.yaml, one whose metadata cannot be parsed, or a chain, with its
\* addresses.yaml, if it has one, and if that can be parsed.
Content ==
    [kind : {"absent", "file", "bare", "malformed"}]
        \cup [kind : {"chain"}, metadata : ChainMetadata,
              addresses : CoreAddresses \cup {"missing", "malformed"}]

ASSUME RegistryAssumption ==
    /\ Registries \subseteq [Dirs -> Content]
    /\ Edits \subseteq Content
    /\ MaxEdits \in Nat
    /\ NoDir \notin Dirs
    /\ IsFiniteSet(Dirs)

VARIABLES
    disk,             \* [Dirs -> Content]
    edits,            \* edits so far
    load,             \* "reading", "loaded", or why loading failed
    unread,           \* entries of the listing not yet read
    reading,          \* the directory whose metadata is read and checked, and
    metadata,         \*   that metadata, a set; its addresses come next
    metadataByName,   \* the three maps of the index
    metadataByDomain,
    addressesByName

diskVars == <<disk, edits>>
indexVars == <<load, unread, reading, metadata, metadataByName, metadataByDomain,
               addressesByName>>

Failures == {"yaml", "duplicate_name", "duplicate_domain", "io"}

RegistryTypeOK ==
    /\ disk \in [Dirs -> Content]
    /\ edits \in 0..MaxEdits
    /\ load \in {"reading", "loaded"} \cup Failures
    /\ unread \subseteq Dirs
    /\ reading \in Dirs \cup {NoDir}
    /\ metadata \subseteq ChainMetadata /\ Cardinality(metadata) <= 1
    /\ \E names \in SUBSET Names : metadataByName \in [names -> ChainMetadata]
    /\ \E domains \in SUBSET DomainIds : metadataByDomain \in [domains -> Names]
    /\ \E names \in SUBSET Names : addressesByName \in [names -> CoreAddresses]

Listing == {d \in Dirs : disk[d].kind # "absent"}

Empty == [k \in {} |-> k]

Insert(map, key, value) ==
    [k \in {key} \cup DOMAIN map |-> IF k = key THEN value ELSE map[k]]

RegistryInit ==
    /\ disk \in Registries
    /\ edits = 0
    /\ load = "reading"
    /\ unread = Listing
    /\ reading = NoDir
    /\ metadata = {}
    /\ metadataByName = Empty
    /\ metadataByDomain = Empty
    /\ addressesByName = Empty

-----------------------------------------------------------------------------
(* Loading                                                                 *)

Fail(why) ==
    /\ load' = why
    /\ UNCHANGED <<diskVars, unread, reading, metadata, metadataByName, metadataByDomain,
                   addressesByName>>

\* The next entry of the listing: the file system chooses.
IsNextEntry(d) == load = "reading" /\ reading = NoDir /\ d \in unread

\* Mutant of SkipEntry: the listing ends here.
EndAtOther(d) ==
    /\ IsNextEntry(d)
    /\ disk[d].kind \in {"absent", "file", "bare"}
    /\ unread' = {}
    /\ UNCHANGED <<diskVars, load, reading, metadata, metadataByName, metadataByDomain,
                   addressesByName>>

\* A file, a directory without metadata.yaml, or one that is gone by now.
SkipEntry(d) ==
    /\ IsNextEntry(d)
    /\ disk[d].kind \in {"absent", "file", "bare"}
    /\ unread' = unread \ {d}
    /\ UNCHANGED <<diskVars, load, reading, metadata, metadataByName, metadataByDomain,
                   addressesByName>>

\* Mutant of Duplicate: the map of names takes care of itself.
DuplicateDomain(m) ==
    IF m.domain \in DOMAIN metadataByDomain THEN "duplicate_domain" ELSE "none"

\* Mutant of Duplicate: only names are compared.
DuplicateName(m) == IF m.name \in DOMAIN metadataByName THEN "duplicate_name" ELSE "none"

\* What the chain has in common with one that is indexed already.
Duplicate(m) ==
    IF m.name \in DOMAIN metadataByName THEN "duplicate_name"
    ELSE IF m.domain \in DOMAIN metadataByDomain THEN "duplicate_domain"
    ELSE "none"

ReadMetadata(d) ==
    /\ IsNextEntry(d)
    /\ disk[d].kind = "chain"
    /\ Duplicate(disk[d].metadata) = "none"
    /\ unread' = unread \ {d}
    /\ reading' = d
    /\ metadata' = {disk[d].metadata}
    /\ UNCHANGED <<diskVars, load, metadataByName, metadataByDomain, addressesByName>>

\* One directory that cannot be parsed, or a second claim to a name or to a
\* domain, ends the run.
RejectMetadata(d) ==
    /\ IsNextEntry(d)
    /\ \/ disk[d].kind = "malformed" /\ Fail("yaml")
       \/ /\ disk[d].kind = "chain"
          /\ Duplicate(disk[d].metadata) # "none"
          /\ Fail(Duplicate(disk[d].metadata))

\* Mutant of Addresses: there is no default.
AddressesAsFound(d) ==
    IF disk[d].kind = "chain" THEN disk[d].addresses ELSE "missing"

\* addresses.yaml of the directory as it is now; without one, no address is
\* known.
Addresses(d) ==
    IF disk[d].kind = "chain" /\ disk[d].addresses # "missing"
    THEN disk[d].addresses ELSE "no_igp"

\* The addresses follow the metadata, and the chain enters the three maps.
ReadAddresses ==
    \E m \in metadata :
      /\ load = "reading"
      /\ reading # NoDir
      /\ Addresses(reading) # "malformed"
      /\ metadataByDomain' = Insert(metadataByDomain, m.domain, m.name)
      /\ metadataByName' = Insert(metadataByName, m.name, m)
      /\ addressesByName' = Insert(addressesByName, m.name, Addresses(reading))
      /\ reading' = NoDir
      /\ metadata' = {}
      /\ UNCHANGED <<diskVars, load, unread>>

RejectAddresses ==
    /\ load = "reading"
    /\ reading # NoDir
    /\ Addresses(reading) = "malformed"
    /\ Fail("yaml")

\* A file or the directory cannot be read.
IoError == load = "reading" /\ Fail("io")

Loaded ==
    /\ load = "reading"
    /\ reading = NoDir
    /\ unread = {}
    /\ load' = "loaded"
    /\ UNCHANGED <<diskVars, unread, reading, metadata, metadataByName, metadataByDomain,
                   addressesByName>>

-----------------------------------------------------------------------------
(* The file system                                                         *)

\* A directory is changed by others.  Whether one that is created while the
\* listing goes on is still listed is up to the file system.  A run does not
\* look at the registry again once it is loaded.
Edit(d) ==
    /\ load = "reading"
    /\ edits < MaxEdits
    /\ edits' = edits + 1
    /\ \E content \in Edits \ {disk[d]} :
         /\ disk' = [disk EXCEPT ![d] = content]
         /\ \/ unread' = unread
            \/ /\ disk[d].kind = "absent" /\ d # reading
               /\ unread' = unread \cup {d}
    /\ UNCHANGED <<load, reading, metadata, metadataByName, metadataByDomain,
                   addressesByName>>

Load ==
    \/ \E d \in Dirs : SkipEntry(d) \/ ReadMetadata(d) \/ RejectMetadata(d)
    \/ ReadAddresses \/ RejectAddresses \/ IoError \/ Loaded

-----------------------------------------------------------------------------
(* Look-ups, once the index is loaded                                      *)

\* chain_metadata, try_chain_by_domain: the chain, if there is one.
ChainMetadataOf(name) ==
    {metadataByName[n] : n \in {name} \cap DOMAIN metadataByName}

TryChainByDomain(domain) ==
    UNION {ChainMetadataOf(metadataByDomain[d]) : d \in {domain} \cap DOMAIN metadataByDomain}

-----------------------------------------------------------------------------
(* Properties                                                              *)

\* The three maps describe the same chains, and domains and names determine
\* each other, in whatever order the directories were read and whatever was
\* changed meanwhile (registry.rs:126-152).  Otherwise a domain would be taken
\* for another chain.
IndexIsInverse ==
    /\ DOMAIN addressesByName = DOMAIN metadataByName
    /\ \A n \in DOMAIN metadataByName :
         /\ metadataByName[n].name = n
         /\ TryChainByDomain(metadataByName[n].domain) = {metadataByName[n]}
    /\ \A d \in DOMAIN metadataByDomain :
         \E m \in TryChainByDomain(d) : m.domain = d

\* The registry on disk, by directory: the chains, and what is wrong with it.
ChainDirs == {d \in Dirs : disk[d].kind = "chain"}
Clash(d, e) ==
    \/ disk[d].metadata.name = disk[e].metadata.name
    \/ disk[d].metadata.domain = disk[e].metadata.domain
Sound ==
    /\ \A d \in Dirs : disk[d].kind # "malformed"
    /\ \A d \in ChainDirs : disk[d].addresses # "malformed"
    /\ \A d, e \in ChainDirs : d # e => ~Clash(d, e)

\* Whether loading succeeds, and what is loaded, does not depend on the order
\* in which the file system lists the directories: nobody having touched the
\* registry, it is loaded whole if it is sound, and not at all if it is not.
LoadIsExact ==
    edits = 0 =>
      /\ load = "loaded" =>
           /\ Sound
           /\ {metadataByName[n] : n \in DOMAIN metadataByName}
                = {disk[d].metadata : d \in ChainDirs}
           /\ \A d \in ChainDirs : addressesByName[disk[d].metadata.name] = Addresses(d)
      /\ load \in Failures \ {"io"} => ~Sound
=============================================================================
