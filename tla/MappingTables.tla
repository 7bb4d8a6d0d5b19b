----------------------------- MODULE MappingTables -----------------------------
(***************************************************************************)
(* The generated tables that map Win32 codes and NT statuses to errcs, and *)
(* NT statuses to Win32 codes, by their numbers in hexadecimal.  A row is  *)
(* a result and the values mapped to it.                                   *)
(***************************************************************************)
EXTENDS TLC

Table(rows) ==
  LET Result(v) == (CHOOSE row \in rows : v \in row[2])[1]
  IN  [v \in UNION {row[2] : row \in rows} |-> Result(v)] @@ <<>>

(* win32_code_to_generic_code.ipp *)
Win32Rows ==
  {<<"function_not_supported", {"1"}>>, <<"no_such_file_or_directory", {"2", "3"}>>,
   <<"too_many_files_open", {"4", "2728"}>>,
   <<"permission_denied", {"5", "c", "10", "13", "20", "52", "3e6", "271d"}>>,
   <<"invalid_argument", {"6", "57", "7b", "83", "10b", "2726"}>>,
   <<"not_enough_memory", {"8", "e"}>>, <<"no_such_device", {"f", "14", "37"}>>,
   <<"cross_device_link", {"11"}>>, <<"resource_unavailable_try_again", {"15", "4d5"}>>,
   <<"io_error", {"19", "1d", "1e", "6e", "3f3", "3f4", "3f5"}>>,
   <<"no_lock_available", {"21", "d4"}>>, <<"no_space_on_device", {"27", "70"}>>,
   <<"file_exists", {"50", "b7"}>>, <<"filename_too_long", {"6f", "274f"}>>,
   <<"device_or_resource_busy", {"8e", "aa", "961", "964"}>>,
   <<"directory_not_empty", {"91"}>>, <<"operation_canceled", {"3e3"}>>,
   <<"interrupted", {"2714"}>>, <<"bad_file_descriptor", {"2719"}>>,
   <<"bad_address", {"271e"}>>, <<"operation_would_block", {"2733"}>>,
   <<"operation_in_progress", {"2734"}>>, <<"connection_already_in_progress", {"2735"}>>,
   <<"not_a_socket", {"2736"}>>, <<"destination_address_required", {"2737"}>>,
   <<"message_size", {"2738"}>>, <<"wrong_protocol_type", {"2739"}>>,
   <<"no_protocol_option", {"273a"}>>, <<"protocol_not_supported", {"273b"}>>,
   <<"operation_not_supported", {"273d"}>>, <<"address_family_not_supported", {"273f"}>>,
   <<"address_in_use", {"2740"}>>, <<"address_not_available", {"2741"}>>,
   <<"network_down", {"2742"}>>, <<"network_unreachable", {"2743"}>>,
   <<"network_reset", {"2744"}>>, <<"connection_aborted", {"2745"}>>,
   <<"connection_reset", {"2746"}>>, <<"no_buffer_space", {"2747"}>>,
   <<"already_connected", {"2748"}>>, <<"not_connected", {"2749"}>>,
   <<"timed_out", {"274c"}>>, <<"connection_refused", {"274d"}>>,
   <<"host_unreachable", {"2751"}>>}

(* nt_code_to_generic_code.ipp *)
NtRows ==
  {<<"permission_denied", {"80000002", "c0000005", "c000001e", "c000001f", "c0000021",
     "c0000022", "c0000041", "c0000043", "c000004b", "c0000056", "c00000a2", "c00000ba",
     "c00000d5", "c000010a", "c0000121", "c0000123", "c0000189", "c000028a", "c000028b",
     "c000028d", "c000028e", "c000028f", "c0000290", "c00002c5", "c00002ea", "c0000467",
     "c0000512", "c000a203"}>>,
   <<"resource_unavailable_try_again", {"8000000f", "80000010", "c0000013", "c000009e",
     "c00000a3", "c000022d", "c000026e", "c00002d3", "c0000495", "c0000503",
     "c000080f"}>>,
   <<"device_or_resource_busy", {"80000011", "c0000107", "c0000108", "c0000433",
     "c0000434", "c0000507"}>>,
   <<"function_not_supported", {"c0000002", "c0000010", "c000001c", "c00000af",
     "c000029c", "c0000710", "c0000711", "c000071b", "c000071d", "c000071e", "c000071f",
     "c0000720", "c0000721"}>>,
   <<"invalid_argument", {"c0000008", "c0000024", "c0000033", "c0000037", "c0000042",
     "c0000103", "c0000128", "c0000235", "c0000455", "c000070a", "c000070b", "c000070c",
     "c000070d", "c000070e", "c000070f", "c0000716"}>>,
   <<"no_such_file_or_directory", {"c000000e", "c000000f", "c0000034", "c000003a",
     "c000009b", "c00000fb", "c00002f0", "c0000491"}>>,
   <<"not_enough_memory", {"c0000017", "c0000040", "c0000087", "c0000097", "c00001ad",
     "c0000373", "c0000416"}>>, <<"file_exists", {"c0000035"}>>,
   <<"no_lock_available", {"c0000054", "c0000055"}>>,
   <<"no_space_on_device", {"c000007f"}>>, <<"no_such_device", {"c00000c0"}>>,
   <<"cross_device_link", {"c00000d4"}>>, <<"directory_not_empty", {"c0000101"}>>,
   <<"too_many_files_open", {"c000011f"}>>, <<"operation_canceled", {"c0000120"}>>}

(* nt_code_to_win32_code.ipp: the rows in which the status or the code has  *)
(* an errc, and one of the others.                                         *)
NtWin32Rows ==
  {<<"3e6", {"80000002", "c0000005", "c00002c5"}>>,
   <<"15", {"8000000f", "80000010", "c0000013", "c000009e", "c00000a3", "c000026e",
     "c00002d3", "c0000495", "c0000503"}>>,
   <<"aa", {"80000011", "c0000433", "c0000434", "c0000507"}>>, <<"1f", {"c0000001"}>>,
   <<"1", {"c0000002", "c0000010", "c000001c", "c00000af", "c000029c", "c0000710",
     "c0000711", "c000071b", "c000071d", "c000071e", "c000071f", "c0000720",
     "c0000721"}>>,
   <<"57", {"c0000003", "c000000b", "c000000d", "c000001a", "c000001b", "c0000030",
     "c0000045", "c0000048", "c0000049", "c000004c", "c000004d", "c000004e", "c00000a9",
     "c00000ef", "c00000f0", "c00000f1", "c00000f2", "c00000f3", "c00000f4", "c00000f5",
     "c00000f6", "c00000f7", "c00000f8", "c00000f9", "c00000fa", "c0000182", "c0000229",
     "c0000456", "c0000457", "c0000458", "c0000702", "c0000705", "c0000706",
     "c000071c"}>>,
   <<"6", {"c0000008", "c0000024", "c0000037", "c0000042", "c0000128", "c0000235",
     "c0000455", "c000070a", "c000070b", "c000070c", "c000070d", "c000070e",
     "c000070f"}>>,
   <<"2", {"c000000e", "c000000f", "c0000034", "c00002f0", "c0000491"}>>,
   <<"8", {"c0000017", "c0000040", "c0000097", "c00001ad", "c0000373", "c0000416"}>>,
   <<"5", {"c000001e", "c000001f", "c0000021", "c0000022", "c0000041", "c000004b",
     "c0000056", "c00000ba", "c00000d5", "c000010a", "c0000121", "c0000123", "c000028a",
     "c000028b", "c000028d", "c000028e", "c000028f", "c0000290", "c0000512",
     "c000a203"}>>, <<"7b", {"c0000033", "c0000716"}>>, <<"b7", {"c0000035"}>>,
   <<"3", {"c000003a", "c000009b", "c00000fb"}>>, <<"20", {"c0000043", "c0000467"}>>,
   <<"21", {"c0000054", "c0000055"}>>, <<"70", {"c000007f"}>>, <<"e", {"c0000087"}>>,
   <<"13", {"c00000a2", "c0000189"}>>, <<"37", {"c00000c0"}>>, <<"11", {"c00000d4"}>>,
   <<"91", {"c0000101"}>>, <<"10b", {"c0000103"}>>, <<"961", {"c0000107"}>>,
   <<"964", {"c0000108"}>>, <<"4", {"c000011f"}>>, <<"3e3", {"c0000120"}>>,
   <<"4d5", {"c000022d", "c000080f"}>>, <<"52", {"c00002ea"}>>}

Win32Errnos == Table(Win32Rows)
NtErrnos == Table(NtRows)
NtWin32s == Table(NtWin32Rows)
===============================================================================
