--------------------------- MODULE IpcStubsAccount ---------------------------
(* The generated Dispatch functions (include/IpcStubs.hpp) of the interfaces
   for accounts, friends, parental control and notifications: one definition
   per interface class, one element per group of commands that are laid out
   alike.  IpcShapes explains the notation. *)
EXTENDS IpcShapes

\* namespace nn::account
account_IAccountServiceForAdministrator == {
  Returns({0}, 4),
  On({1}, <<0, 0, 1>>, <<Data(8, 16)>>, <<Data(8, 1)>>),
  On({2, 3}, <<0, 0, 0>>, <<>>, <<Buffer(10, 0)>>),
  Returns({4, 200}, 16),
  On({5, 102, 205, 250, 290, 291}, <<1, 0, 0>>, <<Data(8, 16)>>, <<Moved(0)>>),
  On({6}, <<0, 0, 16>>, <<Data(8, 16)>>, <<Data(8, 16)>>),
  On({50}, <<0, 0, 1>>, <<Data(8, 8), Pid>>, <<Data(8, 1)>>),
  On({51}, <<0, 0, 16>>, <<Data(8, 1)>>, <<Data(8, 16)>>),
  Opens({100, 101, 103, 104, 230, 299}),
  On({110}, <<0, 0, 0>>, <<Data(8, 16), Data(24, 8), Buffer(5, 0)>>, <<>>),
  On({111}, <<0, 0, 0>>, <<Data(8, 16), Data(24, 8)>>, <<>>),
  On({112}, <<0, 0, 4>>, <<Data(8, 16), Data(24, 8)>>, <<Data(8, 4), Buffer(6, 0)>>),
  On({190}, <<0, 0, 16>>, <<Data(8, 16)>>, <<Data(8, 4), Data(16, 8)>>),
  Takes((201..203) \cup (997..999) \cup {206}, 16),
  On({204}, <<0, 0, 0>>, <<Data(8, 4), Data(16, 16)>>, <<>>),
  On({210}, <<1, 0, 0>>, <<Data(8, 4), Copied(0)>>, <<Moved(0)>>)}
account_IAccountServiceForApplication == {
  Returns({0}, 4),
  On({1}, <<0, 0, 1>>, <<Data(8, 16)>>, <<Data(8, 1)>>),
  On({2, 3}, <<0, 0, 0>>, <<>>, <<Buffer(10, 0)>>),
  Returns({4}, 16),
  On({5, 101}, <<1, 0, 0>>, <<Data(8, 16)>>, <<Moved(0)>>),
  On({6}, <<0, 0, 16>>, <<Data(8, 16)>>, <<Data(8, 16)>>),
  On({50}, <<0, 0, 1>>, <<Data(8, 8), Pid>>, <<Data(8, 1)>>),
  On({51}, <<0, 0, 16>>, <<Data(8, 1)>>, <<Data(8, 16)>>),
  On({100}, <<0, 0, 0>>, <<Data(8, 8), Pid>>, <<>>),
  Opens({102}),
  On({110}, <<0, 0, 0>>, <<Data(8, 16), Buffer(5, 0)>>, <<>>),
  Takes({111}, 16),
  On({120}, <<1, 0, 0>>, <<Data(8, 4), Copied(0)>>, <<Moved(0)>>)}
account_IAccountServiceForSystemService == {
  Returns({0}, 4),
  On({1}, <<0, 0, 1>>, <<Data(8, 16)>>, <<Data(8, 1)>>),
  On({2, 3}, <<0, 0, 0>>, <<>>, <<Buffer(10, 0)>>),
  Returns({4}, 16),
  On({5, 102}, <<1, 0, 0>>, <<Data(8, 16)>>, <<Moved(0)>>),
  On({6}, <<0, 0, 16>>, <<Data(8, 16)>>, <<Data(8, 16)>>),
  On({50}, <<0, 0, 1>>, <<Data(8, 8), Pid>>, <<Data(8, 1)>>),
  On({51}, <<0, 0, 16>>, <<Data(8, 1)>>, <<Data(8, 16)>>),
  Opens({100, 101, 103, 104}),
  On({110}, <<0, 0, 0>>, <<Data(8, 16), Data(24, 8), Buffer(5, 0)>>, <<>>),
  On({111}, <<0, 0, 0>>, <<Data(8, 16), Data(24, 8)>>, <<>>),
  On({112}, <<0, 0, 4>>, <<Data(8, 16), Data(24, 8)>>, <<Data(8, 4), Buffer(6, 0)>>),
  On({190}, <<0, 0, 16>>, <<Data(8, 16)>>, <<Data(8, 4), Data(16, 8)>>),
  Takes(997..999, 16)}
account_IBaasAccessTokenAccessor == {
  On({0, 51}, <<1, 0, 0>>, <<Data(8, 16)>>, <<Moved(0)>>),
  On({1}, <<0, 0, 4>>, <<Data(8, 16)>>, <<Data(8, 4), Buffer(6, 0)>>),
  On({2}, <<0, 0, 8>>, <<Data(8, 16)>>, <<Data(8, 8)>>),
  On({50}, <<1, 0, 0>>, <<Data(8, 40), Data(48, 16)>>, <<Moved(0)>>)}

\* namespace nn::account::baas
account_baas_IAdministrator == {
  Plain({0, 203}),
  Returns({1, 120}, 8),
  Opens({2, 131, 201, 202, 220, 221, 251, 255, 260, 997}),
  On({3}, <<0, 0, 4>>, <<>>, <<Data(8, 4), Buffer(6, 0)>>),
  On({100}, <<0, 0, 0>>, <<Data(8, 8), Pid, Buffer(25, 0)>>, <<>>),
  On({130}, <<0, 0, 8>>, <<>>, <<Data(8, 8), Buffer(26, 0), Buffer(6, 0)>>),
  On({132, 222}, <<1, 0, 1>>, <<Data(8, 4)>>, <<Data(8, 1), Moved(0)>>),
  On({150}, <<1, 0, 0>>, <<Data(8, 4), Copied(0), Buffer(25, 0), Buffer(25, 1)>>, <<Moved(0)>>),
  Returns({200, 250}, 1),
  On({252, 256, 261, 280}, <<1, 0, 0>>, <<Data(8, 16)>>, <<Moved(0)>>),
  Takes({998}, 4)}
account_baas_IFloatingRegistrationRequest == {
  Returns({0}, 16),
  Returns({12, 13}, 8),
  On({14}, <<0, 0, 0>>, <<>>, <<Buffer(10, 0)>>),
  On({15, 21}, <<0, 0, 4>>, <<>>, <<Data(8, 4), Buffer(6, 0)>>),
  On({100}, <<1, 0, 16>>, <<>>, <<Data(8, 16), Moved(0)>>),
  On({101}, <<1, 0, 0>>, <<Data(8, 16)>>, <<Moved(0)>>),
  On({110}, <<0, 0, 0>>, <<Data(8, 8), Pid, Buffer(25, 0)>>, <<>>),
  Opens({111})}
account_baas_IGuestLoginRequest == {
  Returns({0}, 16),
  Returns({12, 13}, 8),
  On({14}, <<0, 0, 0>>, <<>>, <<Buffer(10, 0)>>),
  On({15, 21}, <<0, 0, 4>>, <<>>, <<Data(8, 4), Buffer(6, 0)>>)}
account_baas_IManagerForApplication == {
  Plain({0}),
  Returns({1}, 8),
  Opens({2}),
  On({3}, <<0, 0, 4>>, <<>>, <<Data(8, 4), Buffer(6, 0)>>),
  On({130}, <<0, 0, 8>>, <<>>, <<Data(8, 8), Buffer(26, 0), Buffer(6, 0)>>),
  On({150}, <<1, 0, 0>>, <<Data(8, 4), Copied(0), Buffer(25, 0)>>, <<Moved(0)>>)}
account_baas_IManagerForSystemService == {
  Plain({0}),
  Returns({1, 120}, 8),
  Opens({2, 131}),
  On({3}, <<0, 0, 4>>, <<>>, <<Data(8, 4), Buffer(6, 0)>>),
  On({100}, <<0, 0, 0>>, <<Data(8, 8), Pid, Buffer(25, 0)>>, <<>>),
  On({130}, <<0, 0, 8>>, <<>>, <<Data(8, 8), Buffer(26, 0), Buffer(6, 0)>>),
  On({132}, <<1, 0, 1>>, <<Data(8, 4)>>, <<Data(8, 1), Moved(0)>>),
  On({150}, <<1, 0, 0>>, <<Data(8, 4), Copied(0), Buffer(25, 0), Buffer(25, 1)>>, <<Moved(0)>>)}

\* namespace nn::account::detail
account_detail_IAsyncContext == {Event({0}), Plain({1, 3}), Returns({2}, 1)}
account_detail_INotifier == {Event({0})}
account_detail_ISessionObject == {Plain({999})}

\* namespace nn::account::http
account_http_IOAuthProcedure == {
  Opens({0}),
  On({1}, <<0, 0, 0>>, <<>>, <<Buffer(26, 0), Buffer(26, 1)>>),
  On({2}, <<0, 0, 0>>, <<Buffer(9, 0)>>, <<>>),
  On({3}, <<1, 0, 0>>, <<Buffer(9, 0)>>, <<Moved(0)>>),
  Returns({10}, 16)}

\* namespace nn::account::nas
account_nas_IAuthorizationRequest == {
  Returns({0}, 16),
  Opens({10}),
  Returns({19}, 1),
  On({20, 21}, <<0, 0, 4>>, <<>>, <<Data(8, 4), Buffer(6, 0)>>),
  On({22}, <<0, 0, 0>>, <<>>, <<Buffer(26, 0)>>)}
account_nas_IOAuthProcedureForExternalNsa == {
  Opens({0}),
  On({1}, <<0, 0, 0>>, <<>>, <<Buffer(26, 0), Buffer(26, 1)>>),
  On({2}, <<0, 0, 0>>, <<Buffer(9, 0)>>, <<>>),
  On({3}, <<1, 0, 0>>, <<Buffer(9, 0)>>, <<Moved(0)>>),
  Returns({10}, 16),
  Returns({100, 101}, 8),
  On({102}, <<0, 0, 0>>, <<>>, <<Buffer(10, 0)>>),
  On({103}, <<0, 0, 4>>, <<>>, <<Data(8, 4), Buffer(6, 0)>>)}
account_nas_IOAuthProcedureForNintendoAccountLinkage == {
  Opens({0}),
  On({1}, <<0, 0, 0>>, <<>>, <<Buffer(26, 0), Buffer(26, 1)>>),
  On({2}, <<0, 0, 0>>, <<Buffer(9, 0)>>, <<>>),
  On({3}, <<1, 0, 0>>, <<Buffer(9, 0)>>, <<Moved(0)>>),
  Returns({10}, 16),
  On({100}, <<0, 0, 0>>, <<Data(8, 4)>>, <<Buffer(26, 0), Buffer(26, 1)>>),
  Returns({101}, 1),
  On({199}, <<0, 0, 0>>, <<>>, <<Buffer(26, 0)>>)}

\* namespace nn::account::profile
account_profile_IProfile == {
  On({0}, <<0, 0, 56>>, <<>>, <<Data(8, 56), Buffer(26, 0)>>),
  Returns({1}, 56),
  Returns({10}, 4),
  On({11}, <<0, 0, 4>>, <<>>, <<Data(8, 4), Buffer(6, 0)>>)}
account_profile_IProfileEditor == {
  On({0}, <<0, 0, 56>>, <<>>, <<Data(8, 56), Buffer(26, 0)>>),
  Returns({1}, 56),
  Returns({10}, 4),
  On({11}, <<0, 0, 4>>, <<>>, <<Data(8, 4), Buffer(6, 0)>>),
  On({100}, <<0, 0, 0>>, <<Data(8, 56), Buffer(25, 0)>>, <<>>),
  On({101}, <<0, 0, 0>>, <<Data(8, 56), Buffer(25, 0), Buffer(5, 0)>>, <<>>)}

\* namespace nn::bcat::detail::ipc
bcat_detail_ipc_IBcatService == {
  Opens({10100}),
  On({20100}, <<1, 0, 0>>, <<Data(8, 4), Data(16, 8)>>, <<Moved(0)>>),
  On({30100}, <<0, 0, 0>>, <<Data(8, 8), Buffer(9, 0)>>, <<>>),
  On({30200}, <<0, 0, 0>>, <<Data(8, 4), Data(16, 8)>>, <<>>),
  Takes((30201..30203) \cup {90201}, 8),
  On({90100, 90300}, <<0, 0, 4>>, <<>>, <<Data(8, 4), Buffer(6, 0)>>),
  On({90200}, <<0, 0, 8>>, <<Data(8, 8)>>, <<Data(8, 8), Buffer(6, 0)>>)}
bcat_detail_ipc_IDeliveryCacheDirectoryService == {
  Takes({0}, 32),
  On({1}, <<0, 0, 4>>, <<>>, <<Data(8, 4), Buffer(6, 0)>>),
  Returns({2}, 4)}
bcat_detail_ipc_IDeliveryCacheFileService == {
  On({0}, <<0, 0, 0>>, <<Data(8, 32), Data(40, 32)>>, <<>>),
  On({1}, <<0, 0, 8>>, <<Data(8, 8)>>, <<Data(8, 8), Buffer(6, 0)>>),
  Returns({2}, 8),
  Returns({3}, 16)}
bcat_detail_ipc_IDeliveryCacheProgressService == {
  Event({0}),
  On({1}, <<0, 0, 0>>, <<>>, <<Buffer(26, 0)>>)}
bcat_detail_ipc_IDeliveryCacheStorageService == {
  Opens({0, 1}),
  On({10}, <<0, 0, 4>>, <<>>, <<Data(8, 4), Buffer(6, 0)>>)}
bcat_detail_ipc_IServiceCreator == {
  On({0, 1}, <<1, 0, 0>>, <<Data(8, 8), Pid>>, <<Moved(0)>>),
  On({2}, <<1, 0, 0>>, <<Data(8, 8)>>, <<Moved(0)>>)}

\* namespace nn::friends::detail::ipc
friends_detail_ipc_IFriendService == {
  Event({0}),
  Plain({1, 20900}),
  On({10100}, <<0, 0, 4>>, <<Data(8, 4), Data(16, 16), Data(32, 16), Data(48, 8), Pid>>, <<Data(8,
      4), Buffer(10, 0)>>),
  On({10101}, <<0, 0, 4>>, <<Data(8, 4), Data(16, 16), Data(32, 16), Data(48, 8), Pid>>, <<Data(8,
      4), Buffer(6, 0)>>),
  On({10102}, <<0, 0, 0>>, <<Data(8, 16), Data(24, 8), Pid, Buffer(9, 0)>>, <<Buffer(6, 0)>>),
  On({10110, 30213}, <<0, 0, 4>>, <<Data(8, 16), Data(24, 8)>>, <<Data(8, 4), Buffer(6, 0)>>),
  On({10200}, <<0, 0, 0>>, <<Data(8, 16), Data(24, 8), Data(32, 8), Pid, Buffer(25, 0), Buffer(25,
      1)>>, <<>>),
  On({10211}, <<0, 0, 0>>, <<Data(8, 64), Data(72, 33), Data(112, 16), Data(128, 8), Pid, Buffer(5,
      0), Buffer(25, 0), Buffer(25, 1)>>, <<>>),
  On({10400}, <<0, 0, 4>>, <<Data(8, 4), Data(16, 16)>>, <<Data(8, 4), Buffer(10, 0)>>),
  On({10500, 20500}, <<0, 0, 0>>, <<Data(8, 16), Buffer(9, 0)>>, <<Buffer(6, 0)>>),
  Takes({10600, 10601, 20103, 20104, 20401, 20801, 30100, 30700, 30820, 30830, 49900}, 16),
  On({10610}, <<0, 0, 0>>, <<Data(8, 16), Data(24, 8), Pid, Buffer(25, 0)>>, <<>>),
  On({10700}, <<0, 0, 0>>, <<Data(8, 1), Data(16, 16)>>, <<Buffer(26, 0)>>),
  On({10701}, <<0, 0, 0>>, <<Data(8, 1), Data(16, 8)>>, <<Buffer(26, 0)>>),
  On({10702}, <<0, 0, 0>>, <<Data(8, 16), Data(24, 8), Pid, Buffer(25, 0), Buffer(25, 1),
      Buffer(25, 2)>>, <<>>),
  On({11000}, <<0, 0, 160>>, <<Data(8, 160), Data(168, 4)>>, <<Data(8, 160)>>),
  On({20100}, <<0, 0, 4>>, <<Data(8, 16), Data(24, 16), Data(40, 8), Pid>>, <<Data(8, 4)>>),
  On({20101}, <<0, 0, 4>>, <<Data(8, 16)>>, <<Data(8, 4)>>),
  On({20102, 20110}, <<0, 0, 0>>, <<Data(8, 16), Data(24, 8)>>, <<Buffer(26, 0)>>),
  On({20200}, <<0, 0, 8>>, <<Data(8, 16)>>, <<Data(8, 4), Data(12, 4)>>),
  On({20201}, <<0, 0, 4>>, <<Data(8, 4), Data(12, 4), Data(16, 16)>>, <<Data(8, 4), Buffer(6, 0)>>),
  On({20300, 20400, 20700}, <<0, 0, 4>>, <<Data(8, 4), Data(16, 16)>>, <<Data(8, 4), Buffer(6, 0)>>),
  On({20301}, <<0, 0, 4>>, <<Data(8, 4), Data(16, 16)>>, <<Data(8, 4), Buffer(26, 0), Buffer(6,
      0)>>),
  On({20501}, <<0, 0, 8>>, <<Data(8, 16), Data(24, 8)>>, <<Data(8, 8)>>),
  On({20600, 20800}, <<0, 0, 0>>, <<Data(8, 16)>>, <<Buffer(26, 0)>>),
  On({20701}, <<0, 0, 16>>, <<Data(8, 16)>>, <<Data(8, 16)>>),
  On({21000}, <<0, 0, 0>>, <<Data(8, 8), Data(16, 16)>>, <<Buffer(26, 0)>>),
  On((30202..30205) \cup {30101, 30110, 30212, 30216, 30402}, <<0, 0, 0>>, <<Data(8, 16), Data(24,
      8)>>, <<>>),
  On({30120, 30121}, <<0, 0, 0>>, <<Data(8, 1), Data(16, 16), Data(32, 8)>>, <<>>),
  On({30200, 30400}, <<0, 0, 0>>, <<Data(8, 4), Data(16, 16), Data(32, 8)>>, <<>>),
  On({30201, 30215}, <<0, 0, 0>>, <<Data(8, 4), Data(16, 16), Data(32, 8), Data(40, 16), Buffer(25,
      0), Buffer(25, 1)>>, <<>>),
  On({30210}, <<0, 0, 64>>, <<Data(8, 16)>>, <<Data(8, 64)>>),
  On({30211}, <<0, 0, 0>>, <<Data(8, 64), Data(72, 33), Data(112, 16), Buffer(5, 0)>>, <<>>),
  On({30214}, <<0, 0, 4>>, <<Buffer(9, 0)>>, <<Data(8, 4), Buffer(6, 0)>>),
  On({30217}, <<0, 0, 0>>, <<Data(8, 32), Data(40, 16), Data(56, 32), Data(88, 16), Data(104, 4),
      Data(112, 16), Data(128, 8)>>, <<>>),
  On({30401}, <<0, 0, 0>>, <<Data(8, 4), Data(16, 16), Data(32, 8), Data(40, 16), Buffer(25, 0)>>,
      <<>>),
  On({30500}, <<0, 0, 0>>, <<Data(8, 32), Data(40, 16)>>, <<Buffer(26, 0)>>),
  On({30810, 30812}, <<0, 0, 0>>, <<Data(8, 4), Data(16, 16)>>, <<>>),
  On({30811}, <<0, 0, 0>>, <<Data(8, 1), Data(16, 16)>>, <<>>)}
friends_detail_ipc_INotificationService == {Event({0}), Plain({1}), Returns({2}, 16)}
friends_detail_ipc_IServiceCreator == {
  Opens({0}),
  On({1}, <<1, 0, 0>>, <<Data(8, 16)>>, <<Moved(0)>>)}

\* namespace nn::mii::detail
mii_detail_IDatabaseService == {
  On({0}, <<0, 0, 1>>, <<Data(8, 4)>>, <<Data(8, 1)>>),
  Returns({1, 20}, 1),
  On({2}, <<0, 0, 4>>, <<Data(8, 4)>>, <<Data(8, 4)>>),
  On({3, 4, 8, 9}, <<0, 0, 4>>, <<Data(8, 4)>>, <<Data(8, 4), Buffer(6, 0)>>),
  On({5}, <<0, 0, 88>>, <<Data(8, 88), Data(96, 4)>>, <<Data(8, 88)>>),
  On({6}, <<0, 0, 88>>, <<Data(8, 4), Data(12, 4), Data(16, 4)>>, <<Data(8, 88)>>),
  On({7}, <<0, 0, 88>>, <<Data(8, 4)>>, <<Data(8, 88)>>),
  On({10}, <<0, 0, 68>>, <<Data(8, 68), Data(76, 4)>>, <<Data(8, 68)>>),
  On({11}, <<0, 0, 4>>, <<Data(8, 16), Data(24, 1)>>, <<Data(8, 4)>>),
  On({12}, <<0, 0, 0>>, <<Data(8, 16), Data(24, 4)>>, <<>>),
  Takes({13}, 68),
  Takes({14}, 16),
  Plain(15..17),
  On({18}, <<0, 0, 0>>, <<Buffer(5, 0)>>, <<>>),
  On({19}, <<0, 0, 0>>, <<>>, <<Buffer(6, 0)>>),
  On({21}, <<0, 0, 4>>, <<Data(8, 88)>>, <<Data(8, 4)>>)}
mii_detail_IStaticService == {On({0}, <<1, 0, 0>>, <<Data(8, 4)>>, <<Moved(0)>>)}

\* namespace nn::news::detail::ipc
news_detail_ipc_INewlyArrivedEventHolder == {Event({0})}
news_detail_ipc_INewsDataService == {
  On({0}, <<0, 0, 0>>, <<Buffer(9, 0)>>, <<>>),
  Plain({1}),
  On({2}, <<0, 0, 8>>, <<Data(8, 8)>>, <<Data(8, 8), Buffer(6, 0)>>),
  Returns({3}, 8)}
news_detail_ipc_INewsDatabaseService == {Plain(0..5)}
news_detail_ipc_INewsService == {
  On({10100}, <<0, 0, 0>>, <<Buffer(5, 0)>>, <<>>),
  On({20100}, <<0, 0, 0>>, <<Data(8, 8), Buffer(9, 0)>>, <<>>),
  Plain({30100, 30400, 40100, 40200, 40201}),
  On({30101}, <<0, 0, 4>>, <<Data(8, 4)>>, <<Data(8, 4), Buffer(6, 0)>>),
  Returns({30200}, 1),
  On({30300}, <<0, 0, 0>>, <<Buffer(9, 0)>>, <<>>),
  Takes({40101}, 8),
  On({90100}, <<0, 0, 8>>, <<>>, <<Data(8, 8), Buffer(6, 0)>>)}
news_detail_ipc_IOverwriteEventHolder == {Event({0})}
news_detail_ipc_IServiceCreator == {Opens(0..4)}

\* namespace nn::npns
npns_INpnsSystem == {
  Plain((11..13) \cup (21..25) \cup (111..115) \cup {1, 3, 4, 6, 31, 32, 101, 102, 201}),
  Takes({2}, 8),
  Event({5, 7, 105}),
  Returns({103}, 4),
  On({104}, <<0, 0, 0>>, <<>>, <<Buffer(6, 0)>>),
  Takes({202}, 4)}
npns_INpnsUser == {
  Plain({1, 3, 4, 21, 23, 25, 101, 102, 111}),
  Takes({2}, 8),
  Event({5, 7}),
  Returns({103}, 4),
  On({104}, <<0, 0, 0>>, <<>>, <<Buffer(6, 0)>>)}

\* namespace nn::pctl::detail::ipc
pctl_detail_ipc_IParentalControlService == {
  Plain((1007..1009) \cup {1001, 1004, 1005, 1011, 1043, 1046, 1451, 1452, 1471, 1472, 1474, 1902,
      1941}),
  On({1002, 1003}, <<0, 0, 0>>, <<Data(8, 1), Data(16, 8), Buffer(9, 0)>>, <<>>),
  Returns({1006, 1010, 1031, 1403, 1453, 1455, 1601, 1602}, 1),
  Returns({1012, 1032, 1037, 1039, 1206}, 4),
  Takes({1033, 1038}, 4),
  On({1034}, <<0, 0, 4>>, <<Data(8, 4)>>, <<Data(9, 3)>>),
  On({1035}, <<0, 0, 4>>, <<>>, <<Data(9, 3)>>),
  On({1036}, <<0, 0, 0>>, <<Data(9, 3)>>, <<>>),
  Takes({1042, 1047, 1901, 2014}, 8),
  On({1044}, <<0, 0, 4>>, <<Data(8, 4)>>, <<Data(8, 4), Buffer(6, 0)>>),
  On({1045}, <<0, 0, 0>>, <<Buffer(5, 0)>>, <<>>),
  On(1201..1203, <<0, 0, 0>>, <<Buffer(9, 0)>>, <<>>),
  Returns({1204}, 32),
  On({1205}, <<0, 0, 1>>, <<Data(8, 32), Buffer(9, 0)>>, <<Data(8, 1)>>),
  Event({1207, 1432, 1457, 1473}),
  Returns({1406, 1454, 1952}, 8),
  On({1411}, <<0, 0, 16>>, <<Data(8, 16)>>, <<Data(8, 16)>>),
  On({1421}, <<0, 0, 4>>, <<Data(8, 16)>>, <<Data(8, 4), Buffer(10, 0)>>),
  On({1424}, <<0, 0, 4>>, <<Data(8, 16)>>, <<Data(8, 4)>>),
  Returns({1456}, 52),
  On({1603}, <<0, 0, 2>>, <<>>, <<Data(8, 1), Data(9, 1)>>),
  Takes({1951}, 52),
  On({2001}, <<0, 1, 8>>, <<Buffer(9, 0)>>, <<Data(8, 8), Copied(0)>>),
  On({2002, 2004, 2006}, <<0, 0, 16>>, <<Data(8, 8)>>, <<Data(8, 16)>>),
  On({2003}, <<0, 1, 8>>, <<Data(8, 16)>>, <<Data(8, 8), Copied(0)>>),
  On({2005, 2013}, <<0, 1, 8>>, <<>>, <<Data(8, 8), Copied(0)>>),
  On({2007}, <<0, 1, 8>>, <<Data(8, 1)>>, <<Data(8, 8), Copied(0)>>),
  On({2008}, <<0, 0, 0>>, <<Data(8, 1), Aligned(12, 8, 4)>>, <<>>),
  On({2009}, <<0, 1, 12>>, <<Data(8, 16)>>, <<Data(8, 8), Data(16, 4), Copied(0), Buffer(6, 0)>>),
  On({2010}, <<0, 0, 4>>, <<Data(8, 8)>>, <<Data(8, 4), Buffer(6, 0)>>),
  On({2011}, <<0, 1, 12>>, <<Data(8, 16)>>, <<Data(8, 8), Data(16, 4), Copied(0), Buffer(10, 0)>>),
  On({2012}, <<0, 0, 4>>, <<Data(8, 8)>>, <<Data(8, 4), Buffer(10, 0)>>),
  On({2015}, <<0, 0, 8>>, <<Data(8, 8)>>, <<Data(8, 8)>>)}
pctl_detail_ipc_IParentalControlServiceFactory == {
  On({0}, <<1, 0, 0>>, <<Data(8, 8), Pid>>, <<Moved(0)>>)}

AllAccountCommands ==
  UNION {account_IAccountServiceForAdministrator, account_IAccountServiceForApplication,
    account_IAccountServiceForSystemService, account_IBaasAccessTokenAccessor,
    account_baas_IAdministrator, account_baas_IFloatingRegistrationRequest,
    account_baas_IGuestLoginRequest, account_baas_IManagerForApplication,
    account_baas_IManagerForSystemService, account_detail_IAsyncContext,
    account_detail_INotifier, account_detail_ISessionObject, account_http_IOAuthProcedure,
    account_nas_IAuthorizationRequest, account_nas_IOAuthProcedureForExternalNsa,
    account_nas_IOAuthProcedureForNintendoAccountLinkage, account_profile_IProfile,
    account_profile_IProfileEditor, bcat_detail_ipc_IBcatService,
    bcat_detail_ipc_IDeliveryCacheDirectoryService,
    bcat_detail_ipc_IDeliveryCacheFileService,
    bcat_detail_ipc_IDeliveryCacheProgressService,
    bcat_detail_ipc_IDeliveryCacheStorageService, bcat_detail_ipc_IServiceCreator,
    friends_detail_ipc_IFriendService, friends_detail_ipc_INotificationService,
    friends_detail_ipc_IServiceCreator, mii_detail_IDatabaseService,
    mii_detail_IStaticService, news_detail_ipc_INewlyArrivedEventHolder,
    news_detail_ipc_INewsDataService, news_detail_ipc_INewsDatabaseService,
    news_detail_ipc_INewsService, news_detail_ipc_IOverwriteEventHolder,
    news_detail_ipc_IServiceCreator, npns_INpnsSystem, npns_INpnsUser,
    pctl_detail_ipc_IParentalControlService,
    pctl_detail_ipc_IParentalControlServiceFactory}
=============================================================================
