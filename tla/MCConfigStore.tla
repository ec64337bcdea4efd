--------------------------- MODULE MCConfigStore ---------------------------
(***************************************************************************)
(* The console and one other Config object.  The values differ in what the *)
(* code treats differently: an agtuuid of 36 characters and a shorter one, *)
(* a URL that grows and shrinks, a key whose first byte is NUL.            *)
(***************************************************************************)
EXTENDS ConfigStore

MCFields == FieldNames
MCTexts == {"", "0", "1", "zero-uuid", "uuid", "name", "url", "longurl",
            "changeme", "secret", "nulkey"}
MCDefaultKey == Plain("changeme", KeySize)
MCKeyTail == [t \in MCTexts |-> t /= "nulkey"]

MCUuid == Plain("uuid", 36)

MCEdits == [agtuuid  |-> {MCUuid, Plain("name", 4)},
            key      |-> {Plain("nulkey", KeySize)},
            peer_url |-> {Plain("url", 3), Plain("longurl", 7)},
            polling  |-> {On, Off}]

MCTypical == [agtuuid |-> {MCUuid}, key |-> {Plain("secret", KeySize)},
              peer_url |-> {Plain("url", 3), EmptyString}, polling |-> {On}]
=============================================================================
