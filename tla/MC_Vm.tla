------------------------------- MODULE MC_Vm -------------------------------
(***************************************************************************)
(* Two VMIDs: one VM to start, one for the host to start at boot.  Files:  *)
(* three radios of which two are one card, beside wired segments; tagged   *)
(* segments only; two spellings of the same IDs; one that is invalid.      *)
(***************************************************************************)
EXTENDS VerifyVM, TLC

CONSTANTS first, second, hex14c3, hex0x14c3, hex0616, hex7925, pass

Wired(name, type) == [name |-> name, type |-> type, vendor |-> None, device |-> None,
                      ssid |-> None, psk |-> None, dns |-> None]
Wifi(name, vendor, device) == [name |-> name, type |-> "wifi", vendor |-> vendor, device |-> device,
                               ssid |-> name, psk |-> pass, dns |-> None]

Home == <<Wired("128", "native"), Wired("129", "vlan"), Wifi("wifi-130", hex14c3, hex0616),
          Wifi("wifi-131", hex14c3, hex0616), Wifi("wifi-132", hex14c3, hex7925)>>
Tagged == <<Wired("129", "vlan"), Wired("130", "vlan")>>
TwoSpellings == <<Wired("129", "native"), Wifi("wifi-130", hex14c3, hex0616),
                  Wifi("wifi-131", hex0x14c3, hex0616)>>
HalfIds == <<Wifi("wifi-130", hex14c3, None)>>

MCFiles == (first :> {Home, TwoSpellings, HalfIds}) @@ (second :> {Tagged})

MCAddress == (<<hex14c3, hex0616>> :> "07:00.0") @@ (<<hex14c3, hex7925>> :> "08:00.0")
             @@ (<<hex0x14c3, hex0616>> :> "07:00.0")

MCOptions == (first :> [ovmf |-> FALSE, start |-> TRUE, onboot |-> FALSE, keep |-> FALSE])
             @@ (second :> [ovmf |-> TRUE, start |-> FALSE, onboot |-> TRUE, keep |-> TRUE])
=============================================================================
