--------------------------- MODULE IpcStubsNetwork ---------------------------
(* The generated Dispatch functions (include/IpcStubs.hpp) of the interfaces
   for networks, sockets and wireless devices: one definition per interface
   class, one element per group of commands that are laid out alike.
   IpcShapes explains the notation. *)
EXTENDS IpcShapes

\* namespace nn::bluetooth
bluetooth_IBluetoothDriver == {
  Plain((2..10) \cup (19..22) \cup (24..26) \cup (28..30) \cup (38..40) \cup {0, 13, 14, 16, 32,
      33, 35}),
  Event({1, 36}),
  On({11, 12, 17, 18, 23}, <<0, 0, 0>>, <<Data(12, 6)>>, <<>>),
  On({15, 27, 37}, <<0, 0, 4>>, <<>>, <<Data(8, 4), Buffer(10, 0)>>),
  Takes({31, 34, 41, 43}, 1),
  Returns({42, 44}, 1)}

\* namespace nn::bsdsocket::cfg
bsdsocket_cfg_ServerInterface == {
  Plain((8..10) \cup {0, 1, 4, 6, 12}),
  On({2, 5, 11}, <<0, 0, 0>>, <<Buffer(5, 0)>>, <<>>),
  On({3}, <<0, 0, 0>>, <<Data(8, 4), Buffer(5, 0)>>, <<>>),
  Takes({7}, 4)}

\* namespace nn::btm
btm_IBtm == {
  Returns({0}, 4),
  Plain((1..5) \cup (8..10) \cup {14, 15, 17, 18}),
  Takes({6, 7}, 4),
  On((11..13) \cup {16}, <<0, 0, 0>>, <<Data(12, 6)>>, <<>>)}
btm_IBtmDebug == {Plain(0..8)}
btm_IBtmSystem == {Opens({0})}
btm_IBtmSystemCore == {Plain((0..2) \cup {4, 5, 7, 8}), Returns({3, 6, 9}, 1)}

\* namespace nn::eth::sf
eth_sf_IEthInterface == {Plain((0..3) \cup {5}), Takes({4}, 4)}
eth_sf_IEthInterfaceGroup == {Event({0}), Plain(1..3), Returns({4}, 4)}

\* namespace nn::ldn::detail
ldn_detail_IMonitorService == {
  Returns({0}, 4),
  On({1}, <<0, 0, 0>>, <<>>, <<Buffer(26, 0)>>),
  On({2}, <<0, 0, 8>>, <<>>, <<Data(8, 4), Data(12, 4)>>),
  Returns({3}, 2),
  Returns({4, 5}, 32),
  Plain({100, 101})}
ldn_detail_IMonitorServiceCreator == {Opens({0})}
ldn_detail_ISystemLocalCommunicationService == {
  Returns({0}, 4),
  On({1}, <<0, 0, 0>>, <<>>, <<Buffer(26, 0)>>),
  On({2}, <<0, 0, 8>>, <<>>, <<Data(8, 4), Data(12, 4)>>),
  Returns({3}, 2),
  Returns({4, 5}, 32),
  Event({100}),
  On({101}, <<0, 0, 0>>, <<>>, <<Buffer(26, 0), Buffer(10, 0)>>),
  On({102, 103}, <<0, 0, 2>>, <<Data(8, 2), Data(16, 96)>>, <<Data(8, 2), Buffer(34, 0)>>),
  Plain({200, 201, 204, 209, 300, 301, 304, 401}),
  On({202}, <<0, 0, 0>>, <<Data(8, 68), Aligned(76, 48, 4), Data(128, 32)>>, <<>>),
  On({203}, <<0, 0, 0>>, <<Data(8, 68), Aligned(76, 32, 4), Aligned(108, 48, 4), Data(160, 32),
      Buffer(9, 0)>>, <<>>),
  Takes({205}, 4),
  On({206}, <<0, 0, 0>>, <<Buffer(33, 0)>>, <<>>),
  Takes({207}, 1),
  On({208}, <<0, 0, 0>>, <<Data(12, 6)>>, <<>>),
  On({302}, <<0, 0, 0>>, <<Data(8, 68), Aligned(76, 48, 4), Data(124, 4), Data(128, 4), Buffer(25,
      0)>>, <<>>),
  On({303}, <<0, 0, 0>>, <<Data(8, 68), Aligned(76, 32, 4), Aligned(108, 48, 4), Data(156, 4),
      Data(160, 4), Data(168, 32)>>, <<>>),
  On({400}, <<0, 0, 0>>, <<Data(8, 8), Pid>>, <<>>)}
ldn_detail_ISystemServiceCreator == {Opens({0})}
ldn_detail_IUserLocalCommunicationService == {
  Returns({0}, 4),
  On({1}, <<0, 0, 0>>, <<>>, <<Buffer(26, 0)>>),
  On({2}, <<0, 0, 8>>, <<>>, <<Data(8, 4), Data(12, 4)>>),
  Returns({3}, 2),
  Returns({4, 5}, 32),
  Event({100}),
  On({101}, <<0, 0, 0>>, <<>>, <<Buffer(26, 0), Buffer(10, 0)>>),
  On({102, 103}, <<0, 0, 2>>, <<Data(8, 2), Data(16, 96)>>, <<Data(8, 2), Buffer(34, 0)>>),
  Plain({200, 201, 204, 209, 300, 301, 304, 401}),
  On({202}, <<0, 0, 0>>, <<Data(8, 68), Aligned(76, 48, 4), Data(128, 32)>>, <<>>),
  On({203}, <<0, 0, 0>>, <<Data(8, 68), Aligned(76, 32, 4), Aligned(108, 48, 4), Data(160, 32),
      Buffer(9, 0)>>, <<>>),
  Takes({205}, 4),
  On({206}, <<0, 0, 0>>, <<Buffer(33, 0)>>, <<>>),
  Takes({207}, 1),
  On({208}, <<0, 0, 0>>, <<Data(12, 6)>>, <<>>),
  On({302}, <<0, 0, 0>>, <<Data(8, 68), Aligned(76, 48, 4), Data(124, 4), Data(128, 4), Buffer(25,
      0)>>, <<>>),
  On({303}, <<0, 0, 0>>, <<Data(8, 68), Aligned(76, 32, 4), Aligned(108, 48, 4), Data(156, 4),
      Data(160, 4), Data(168, 32)>>, <<>>),
  On({400}, <<0, 0, 0>>, <<Data(8, 8), Pid>>, <<>>)}
ldn_detail_IUserServiceCreator == {Opens({0})}

\* namespace nn::nfc::am::detail
nfc_am_detail_IAm == {Plain({0, 1}), Takes({2}, 8)}
nfc_am_detail_IAmManager == {Opens({0})}

\* namespace nn::nfc::detail
nfc_detail_ISystem == {
  On({0}, <<0, 0, 0>>, <<Data(8, 8), Data(16, 8), Pid, Buffer(5, 0)>>, <<>>),
  Plain({1}),
  Returns({2}, 4),
  Returns({3}, 1),
  Takes({100}, 1)}
nfc_detail_ISystemManager == {Opens({0})}
nfc_detail_IUser == {
  On({0}, <<0, 0, 0>>, <<Data(8, 8), Data(16, 8), Pid, Buffer(5, 0)>>, <<>>),
  Plain({1}),
  Returns({2}, 4),
  Returns({3}, 1)}
nfc_detail_IUserManager == {Opens({0})}

\* namespace nn::nfc::mifare::detail
nfc_mifare_detail_IUser == {
  On({0}, <<0, 0, 0>>, <<Data(8, 8), Data(16, 8), Pid, Buffer(5, 0)>>, <<>>),
  Plain({1}),
  On({2}, <<0, 0, 4>>, <<>>, <<Data(8, 4), Buffer(10, 0)>>),
  Takes({3, 4}, 8),
  On({5}, <<0, 0, 0>>, <<Data(8, 8), Buffer(5, 0)>>, <<Buffer(6, 0)>>),
  On({6}, <<0, 0, 0>>, <<Data(8, 8), Buffer(5, 0)>>, <<>>),
  On({7}, <<0, 0, 0>>, <<Data(8, 8)>>, <<Buffer(26, 0)>>),
  On({8, 9}, <<0, 1, 0>>, <<Data(8, 8)>>, <<Copied(0)>>),
  Returns({10}, 4),
  On({11, 12}, <<0, 0, 4>>, <<Data(8, 8)>>, <<Data(8, 4)>>),
  Event({13})}
nfc_mifare_detail_IUserManager == {Opens({0})}

\* namespace nn::nfp::detail
nfp_detail_IDebug == {
  On({0, 300}, <<0, 0, 0>>, <<Data(8, 8), Data(16, 8), Pid, Buffer(5, 0)>>, <<>>),
  Plain({1, 301}),
  On({2, 302}, <<0, 0, 4>>, <<>>, <<Data(8, 4), Buffer(10, 0)>>),
  Takes({3, 4, 6, 10, 11, 100, 104, 105, 202, 304, 312, 313}, 8),
  On({5}, <<0, 0, 0>>, <<Data(8, 8), Data(16, 4), Data(20, 4)>>, <<>>),
  On({7, 203, 303}, <<0, 0, 0>>, <<Data(8, 8), Data(16, 4)>>, <<>>),
  On({8}, <<0, 0, 4>>, <<Data(8, 8)>>, <<Data(8, 4), Buffer(6, 0)>>),
  On({9}, <<0, 0, 0>>, <<Data(8, 8), Buffer(5, 0)>>, <<>>),
  On({12, 24, 206}, <<0, 0, 0>>, <<Data(8, 8), Data(16, 4), Buffer(5, 0)>>, <<>>),
  On((13..16) \cup {101, 102, 200, 306}, <<0, 0, 0>>, <<Data(8, 8)>>, <<Buffer(26, 0)>>),
  On({17, 18, 307, 308}, <<0, 1, 0>>, <<Data(8, 8)>>, <<Copied(0)>>),
  Returns({19, 309}, 4),
  On((20..22) \cup {310, 311}, <<0, 0, 4>>, <<Data(8, 8)>>, <<Data(8, 4)>>),
  Event({23, 314}),
  On({103, 201}, <<0, 0, 0>>, <<Data(8, 8), Buffer(25, 0)>>, <<>>),
  On({106}, <<0, 0, 1>>, <<Data(8, 8)>>, <<Data(8, 1)>>),
  On({204}, <<0, 0, 4>>, <<>>, <<Data(8, 4), Buffer(6, 0)>>),
  On({205}, <<0, 0, 0>>, <<Buffer(5, 0)>>, <<>>),
  On({305}, <<0, 0, 4>>, <<Data(8, 8), Data(16, 8), Buffer(5, 0)>>, <<Data(8, 4), Buffer(6, 0)>>)}
nfp_detail_IDebugManager == {Opens({0})}
nfp_detail_ISystem == {
  On({0}, <<0, 0, 0>>, <<Data(8, 8), Data(16, 8), Pid, Buffer(5, 0)>>, <<>>),
  Plain({1}),
  On({2}, <<0, 0, 4>>, <<>>, <<Data(8, 4), Buffer(10, 0)>>),
  Takes({3, 4, 6, 10, 11, 100, 104, 105}, 8),
  On({5}, <<0, 0, 0>>, <<Data(8, 8), Data(16, 4), Data(20, 4)>>, <<>>),
  On((13..16) \cup {101, 102}, <<0, 0, 0>>, <<Data(8, 8)>>, <<Buffer(26, 0)>>),
  On({17, 18}, <<0, 1, 0>>, <<Data(8, 8)>>, <<Copied(0)>>),
  Returns({19}, 4),
  On({20, 21}, <<0, 0, 4>>, <<Data(8, 8)>>, <<Data(8, 4)>>),
  Event({23}),
  On({103}, <<0, 0, 0>>, <<Data(8, 8), Buffer(25, 0)>>, <<>>),
  On({106}, <<0, 0, 1>>, <<Data(8, 8)>>, <<Data(8, 1)>>)}
nfp_detail_ISystemManager == {Opens({0})}
nfp_detail_IUser == {
  On({0}, <<0, 0, 0>>, <<Data(8, 8), Data(16, 8), Pid, Buffer(5, 0)>>, <<>>),
  Plain({1}),
  On({2}, <<0, 0, 4>>, <<>>, <<Data(8, 4), Buffer(10, 0)>>),
  Takes({3, 4, 6, 10, 11}, 8),
  On({5}, <<0, 0, 0>>, <<Data(8, 8), Data(16, 4), Data(20, 4)>>, <<>>),
  On({7}, <<0, 0, 0>>, <<Data(8, 8), Data(16, 4)>>, <<>>),
  On({8}, <<0, 0, 4>>, <<Data(8, 8)>>, <<Data(8, 4), Buffer(6, 0)>>),
  On({9}, <<0, 0, 0>>, <<Data(8, 8), Buffer(5, 0)>>, <<>>),
  On({12, 24}, <<0, 0, 0>>, <<Data(8, 8), Data(16, 4), Buffer(5, 0)>>, <<>>),
  On(13..16, <<0, 0, 0>>, <<Data(8, 8)>>, <<Buffer(26, 0)>>),
  On({17, 18}, <<0, 1, 0>>, <<Data(8, 8)>>, <<Copied(0)>>),
  Returns({19}, 4),
  On(20..22, <<0, 0, 4>>, <<Data(8, 8)>>, <<Data(8, 4)>>),
  Event({23})}
nfp_detail_IUserManager == {Opens({0})}

\* namespace nn::nifm::detail
nifm_detail_IGeneralService == {
  On({1, 5, 13, 27}, <<0, 0, 0>>, <<>>, <<Buffer(26, 0)>>),
  Opens({2}),
  On({4}, <<1, 0, 0>>, <<Data(8, 4)>>, <<Moved(0)>>),
  On({6}, <<0, 0, 4>>, <<Data(8, 4)>>, <<Data(8, 4), Buffer(10, 0)>>),
  On({7}, <<0, 0, 4>>, <<Data(8, 1)>>, <<Data(8, 4), Buffer(6, 0)>>),
  On({8}, <<0, 0, 0>>, <<Data(8, 16)>>, <<Buffer(26, 0)>>),
  On({9}, <<0, 0, 16>>, <<Buffer(25, 0)>>, <<Data(8, 16)>>),
  Takes({10}, 16),
  On({11}, <<0, 0, 4>>, <<>>, <<Data(8, 4), Buffer(6, 0)>>),
  Returns({12}, 4),
  On({14}, <<1, 0, 16>>, <<Buffer(25, 0)>>, <<Data(8, 16), Moved(0)>>),
  On({15}, <<0, 0, 22>>, <<>>, <<Data(8, 13), Aligned(21, 9, 1)>>),
  Takes({16, 19, 29, 30}, 1),
  Returns({17, 20, 22}, 1),
  On({18}, <<0, 0, 4>>, <<>>, <<Data(9, 3)>>),
  On({21}, <<0, 0, 1>>, <<Buffer(25, 0)>>, <<Data(8, 1)>>),
  Plain({23, 24, 33}),
  Returns({25}, 16),
  On({26, 28}, <<0, 0, 0>>, <<Buffer(25, 0)>>, <<>>),
  Event({31}),
  On({32}, <<0, 0, 0>>, <<>>, <<Buffer(22, 0)>>)}
nifm_detail_INetworkProfile == {
  On({0}, <<0, 0, 16>>, <<Buffer(25, 0)>>, <<Data(8, 16)>>),
  On({1}, <<0, 0, 16>>, <<Data(8, 16)>>, <<Data(8, 16)>>),
  Returns({2}, 16)}
nifm_detail_IRequest == {
  Returns({0, 20}, 4),
  Plain({1, 3, 4}),
  On({2}, <<0, 2, 0>>, <<>>, <<Copied(0), Copied(1)>>),
  Takes({5}, 36),
  Takes({6, 18, 24, 25}, 4),
  Takes((10..13) \cup (15..17) \cup {8, 23}, 1),
  Takes({9}, 16),
  On({14}, <<0, 0, 0>>, <<Data(8, 1), Data(9, 1)>>, <<>>),
  Returns({19}, 36),
  On({21}, <<0, 0, 12>>, <<Data(8, 4)>>, <<Data(8, 4), Data(12, 4), Data(16, 4), Buffer(6, 0)>>),
  On({22}, <<0, 0, 4>>, <<>>, <<Data(8, 4), Buffer(22, 0)>>)}
nifm_detail_IScanRequest == {Plain({0, 2}), Returns({1}, 1), Event({3})}
nifm_detail_IStaticService == {Opens({4}), On({5}, <<1, 0, 0>>, <<Data(8, 8), Pid>>, <<Moved(0)>>)}

\* namespace nn::nsd::detail
nsd_detail_IManager == {
  On({10, 11, 40, 42, 50, 60}, <<0, 0, 0>>, <<>>, <<Buffer(22, 0)>>),
  Returns({12}, 16),
  Takes({13}, 4),
  On({14}, <<0, 0, 0>>, <<Data(8, 4), Buffer(5, 0)>>, <<Buffer(6, 0)>>),
  On({20, 30}, <<0, 0, 0>>, <<Buffer(21, 0)>>, <<Buffer(22, 0)>>),
  On({21, 31}, <<0, 0, 4>>, <<Buffer(21, 0)>>, <<Data(8, 4), Buffer(22, 0)>>),
  On({41, 43}, <<0, 0, 4>>, <<>>, <<Data(8, 4), Buffer(22, 0)>>),
  On({61}, <<0, 0, 0>>, <<Buffer(21, 0)>>, <<>>),
  Plain({62})}

\* namespace nn::socket::resolver
socket_resolver_IResolver == {
  On({0}, <<0, 0, 0>>, <<Data(8, 4), Buffer(5, 0)>>, <<>>),
  On({1, 4, 5}, <<0, 0, 0>>, <<Data(8, 4)>>, <<Buffer(6, 0)>>),
  On({2}, <<0, 0, 12>>, <<Data(8, 1), Data(12, 4), Data(16, 8), Pid, Buffer(5, 0)>>, <<Data(8, 4),
      Data(12, 4), Data(16, 4), Buffer(6, 0)>>),
  On({3}, <<0, 0, 12>>, <<Data(8, 4), Data(12, 4), Data(16, 4), Data(24, 8), Pid, Buffer(5, 0)>>,
      <<Data(8, 4), Data(12, 4), Data(16, 4), Buffer(6, 0)>>),
  On({6}, <<0, 0, 12>>, <<Data(8, 1), Data(12, 4), Data(16, 8), Pid, Buffer(5, 0), Buffer(5, 1),
      Buffer(5, 2)>>, <<Data(8, 4), Data(12, 4), Data(16, 4), Buffer(6, 0)>>),
  On({7}, <<0, 0, 8>>, <<Data(8, 4), Data(12, 4), Data(16, 8), Pid, Buffer(5, 0)>>, <<Data(8, 4),
      Data(12, 4), Buffer(6, 0), Buffer(6, 1)>>),
  On({8}, <<0, 0, 4>>, <<Data(8, 8), Pid>>, <<Data(8, 4)>>),
  On({9}, <<0, 0, 0>>, <<Data(8, 4), Data(16, 8), Pid>>, <<>>)}

\* namespace nn::socket::sf
socket_sf_IClient == {
  On({0}, <<0, 0, 4>>, <<Data(8, 8), Data(16, 8), Data(24, 8), Data(32, 8), Data(40, 8), Data(48,
      8), Pid, Copied(0)>>, <<Data(8, 4)>>),
  On({1}, <<0, 0, 0>>, <<Data(8, 8), Pid>>, <<>>),
  On({2, 3, 20}, <<0, 0, 8>>, <<Data(8, 4), Data(12, 4), Data(16, 4)>>, <<Data(8, 4), Data(12, 4)>>),
  On({4, 13, 14, 24}, <<0, 0, 8>>, <<Data(8, 4), Buffer(33, 0)>>, <<Data(8, 4), Data(12, 4)>>),
  On({5}, <<0, 0, 8>>, <<Data(8, 4), Data(16, 24), Buffer(33, 0), Buffer(33, 1), Buffer(33, 2)>>,
      <<Data(8, 4), Data(12, 4), Buffer(34, 0), Buffer(34, 1), Buffer(34, 2)>>),
  On({6}, <<0, 0, 8>>, <<Data(8, 4), Data(12, 4), Buffer(33, 0)>>, <<Data(8, 4), Data(12, 4),
      Buffer(34, 0)>>),
  On({7}, <<0, 0, 12>>, <<Buffer(33, 0), Buffer(33, 1)>>, <<Data(8, 4), Data(12, 4), Data(16, 4),
      Buffer(34, 0)>>),
  On({8}, <<0, 0, 8>>, <<Data(8, 4), Data(12, 4)>>, <<Data(8, 4), Data(12, 4), Buffer(34, 0)>>),
  On({9}, <<0, 0, 12>>, <<Data(8, 4), Data(12, 4)>>, <<Data(8, 4), Data(12, 4), Data(16, 4),
      Buffer(34, 0), Buffer(34, 1)>>),
  On({10}, <<0, 0, 8>>, <<Data(8, 4), Data(12, 4), Buffer(33, 0)>>, <<Data(8, 4), Data(12, 4)>>),
  On({11}, <<0, 0, 8>>, <<Data(8, 4), Data(12, 4), Buffer(33, 0), Buffer(33, 1)>>, <<Data(8, 4),
      Data(12, 4)>>),
  On({12, 15, 16}, <<0, 0, 12>>, <<Data(8, 4)>>, <<Data(8, 4), Data(12, 4), Data(16, 4), Buffer(34,
      0)>>),
  On({17}, <<0, 0, 12>>, <<Data(8, 4), Data(12, 4), Data(16, 4)>>, <<Data(8, 4), Data(12, 4),
      Data(16, 4), Buffer(34, 0)>>),
  On({18, 22}, <<0, 0, 8>>, <<Data(8, 4), Data(12, 4)>>, <<Data(8, 4), Data(12, 4)>>),
  On({19}, <<0, 0, 8>>, <<Data(8, 4), Data(12, 4), Data(16, 4), Buffer(33, 0), Buffer(33, 1),
      Buffer(33, 2), Buffer(33, 3)>>, <<Data(8, 4), Data(12, 4), Buffer(34, 0), Buffer(34, 1),
      Buffer(34, 2), Buffer(34, 3)>>),
  On({21}, <<0, 0, 8>>, <<Data(8, 4), Data(12, 4), Data(16, 4), Buffer(33, 0)>>, <<Data(8, 4),
      Data(12, 4)>>),
  On({23, 26}, <<0, 0, 8>>, <<Data(8, 4)>>, <<Data(8, 4), Data(12, 4)>>),
  On({25}, <<0, 0, 8>>, <<Data(8, 4)>>, <<Data(8, 4), Data(12, 4), Buffer(34, 0)>>),
  On({27}, <<0, 0, 8>>, <<Data(8, 4), Data(16, 8)>>, <<Data(8, 4), Data(12, 4)>>),
  On({28}, <<0, 0, 8>>, <<Data(8, 8), Pid>>, <<Data(8, 4), Data(12, 4), Buffer(34, 0)>>),
  On({29}, <<0, 0, 8>>, <<Data(8, 4), Data(12, 4), Data(16, 4), Data(24, 16)>>, <<Data(8, 4),
      Data(12, 4), Buffer(34, 0)>>),
  On({30}, <<0, 0, 8>>, <<Data(8, 4), Data(12, 4), Data(16, 4), Buffer(33, 0), Buffer(33, 1)>>,
      <<Data(8, 4), Data(12, 4)>>)}

\* namespace nn::ssl::sf
ssl_sf_ISslConnection == {
  On({0}, <<0, 0, 4>>, <<Data(8, 4)>>, <<Data(8, 4)>>),
  On({1}, <<0, 0, 0>>, <<Buffer(5, 0)>>, <<>>),
  Takes({2, 3, 17, 20}, 4),
  Returns({4, 6, 7, 12, 16, 18, 21}, 4),
  On({5, 10, 13}, <<0, 0, 4>>, <<>>, <<Data(8, 4), Buffer(6, 0)>>),
  Plain({8, 15, 19}),
  On({9, 24}, <<0, 0, 8>>, <<>>, <<Data(8, 4), Data(12, 4), Buffer(6, 0)>>),
  On({11}, <<0, 0, 4>>, <<Buffer(5, 0)>>, <<Data(8, 4)>>),
  On({14}, <<0, 0, 4>>, <<Data(8, 4), Data(12, 4)>>, <<Data(8, 4)>>),
  On({22}, <<0, 0, 0>>, <<Data(8, 1), Data(12, 4)>>, <<>>),
  On({23}, <<0, 0, 1>>, <<Data(8, 4)>>, <<Data(8, 1)>>)}
ssl_sf_ISslContext == {
  On({0}, <<0, 0, 0>>, <<Data(8, 4), Data(12, 4)>>, <<>>),
  On({1}, <<0, 0, 4>>, <<Data(8, 4)>>, <<Data(8, 4)>>),
  Opens({2}),
  Returns({3}, 4),
  On({4}, <<0, 0, 8>>, <<Data(8, 4), Buffer(5, 0)>>, <<Data(8, 8)>>),
  On({5}, <<0, 0, 8>>, <<Buffer(5, 0), Buffer(5, 1)>>, <<Data(8, 8)>>),
  Takes({6, 7, 11}, 8),
  On({8}, <<0, 0, 8>>, <<Data(8, 4)>>, <<Data(8, 8)>>),
  On({9}, <<0, 0, 0>>, <<Buffer(5, 0)>>, <<>>),
  On({10}, <<0, 0, 8>>, <<Buffer(5, 0)>>, <<Data(8, 8)>>)}
ssl_sf_ISslService == {
  On({0}, <<1, 0, 0>>, <<Data(8, 4), Data(16, 8), Pid>>, <<Moved(0)>>),
  Returns({1}, 4),
  On({2}, <<0, 0, 4>>, <<Buffer(5, 0)>>, <<Data(8, 4), Buffer(6, 0)>>),
  On({3}, <<0, 0, 4>>, <<Buffer(5, 0)>>, <<Data(8, 4)>>),
  On({4}, <<0, 0, 0>>, <<Data(8, 8), Buffer(5, 0)>>, <<Buffer(6, 0)>>),
  Takes({5}, 4)}

\* namespace nn::wlan::detail
wlan_detail_IInfraManager == {
  Plain((0..9) \cup (14..17) \cup {11, 19, 20, 24, 25}),
  Returns({10, 12, 18, 21}, 4),
  Takes({13, 22, 23}, 4)}
wlan_detail_ILocalGetActionFrame == {Plain({0})}
wlan_detail_ILocalGetFrame == {Plain({0})}
wlan_detail_ILocalManager == {
  Plain((0..15) \cup (17..19) \cup (30..38) \cup {21, 23, 24, 26, 28, 40, 41}),
  Takes({16, 25, 27, 29, 39, 42, 44}, 4),
  Event({20}),
  Returns({22, 43}, 4)}
wlan_detail_ISocketGetFrame == {Plain({0})}
wlan_detail_ISocketManager == {
  On({0}, <<0, 0, 0>>, <<Buffer(5, 0)>>, <<>>),
  Takes({1, 3}, 4),
  Plain((4..6) \cup (9..11) \cup {2}),
  Takes({7}, 1),
  Returns({8}, 8)}

AllNetworkCommands ==
  UNION {bluetooth_IBluetoothDriver, bsdsocket_cfg_ServerInterface, btm_IBtm, btm_IBtmDebug,
    btm_IBtmSystem, btm_IBtmSystemCore, eth_sf_IEthInterface, eth_sf_IEthInterfaceGroup,
    ldn_detail_IMonitorService, ldn_detail_IMonitorServiceCreator,
    ldn_detail_ISystemLocalCommunicationService, ldn_detail_ISystemServiceCreator,
    ldn_detail_IUserLocalCommunicationService, ldn_detail_IUserServiceCreator,
    nfc_am_detail_IAm, nfc_am_detail_IAmManager, nfc_detail_ISystem,
    nfc_detail_ISystemManager, nfc_detail_IUser, nfc_detail_IUserManager,
    nfc_mifare_detail_IUser, nfc_mifare_detail_IUserManager, nfp_detail_IDebug,
    nfp_detail_IDebugManager, nfp_detail_ISystem, nfp_detail_ISystemManager,
    nfp_detail_IUser, nfp_detail_IUserManager, nifm_detail_IGeneralService,
    nifm_detail_INetworkProfile, nifm_detail_IRequest, nifm_detail_IScanRequest,
    nifm_detail_IStaticService, nsd_detail_IManager, socket_resolver_IResolver,
    socket_sf_IClient, ssl_sf_ISslConnection, ssl_sf_ISslContext, ssl_sf_ISslService,
    wlan_detail_IInfraManager, wlan_detail_ILocalGetActionFrame,
    wlan_detail_ILocalGetFrame, wlan_detail_ILocalManager, wlan_detail_ISocketGetFrame,
    wlan_detail_ISocketManager}
=============================================================================
