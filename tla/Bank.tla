-------------------------------- MODULE Bank --------------------------------
(***************************************************************************)
(* A bank of NumBanks settings (Banks/Bank.hpp) that shifts the note of a  *)
(* bankable element (BankType ChangeAddress): the address an output sends  *)
(* to and the setting an incoming note belongs to.                         *)
(***************************************************************************)
EXTENDS Integers

CONSTANTS NumBanks,           \* template parameter of Bank
          TracksPerBank,      \* notes to skip per setting
          SelectionOffset     \* added to the setting

ASSUME BankAssumption == /\ NumBanks \in 1..255
                         /\ TracksPerBank \in 1..255
                         /\ SelectionOffset \in -128..127

Settings == 0..NumBanks - 1

Int8(n) == ((n + 128) % 256) - 128
UInt8(n) == n % 256

OffsetOfSetting(s) == Int8((s + SelectionOffset) * TracksPerBank)

(* The note field of a MIDIAddress has seven bits.                         *)
AddressOf(base, s) == (base + OffsetOfSetting(s)) % 128

(* The distance of a note to the note of setting 0, in eight bits.         *)
Distance(note, base) == UInt8(note - base - SelectionOffset * TracksPerBank)

MatchBankable(note, base) ==
    /\ note >= base + SelectionOffset * TracksPerBank
    /\ Distance(note, base) < NumBanks * TracksPerBank
    /\ Distance(note, base) % TracksPerBank = 0

BankIndex(note, base) == Distance(note, base) \div TracksPerBank

ValidateSetting(s) == IF s >= NumBanks THEN NumBanks - 1 ELSE s
=============================================================================
